---- MODULE Spec2Model ----
(***************************************************************************)
(* caddy-extra-placeholders: the ExtraPlaceholders HTTP middleware.        *)
(*                                                                         *)
(* The module models the handler's life cycle in the host server           *)
(* (UnmarshalCaddyfile, Provision, Validate, then any number of ServeHTTP  *)
(* calls), the per-request steps of ServeHTTP with the clock and the OS    *)
(* metrics as the environment, and the pure computations the handler       *)
(* delegates to the Go standard library (strconv.Atoi, fmt.Sprintf,        *)
(* time.Time accessors, time.Format, time.Duration.String, rand.Intn) as   *)
(* operators that compute what those calls compute.                        *)
(*                                                                         *)
(* Go's int is modelled at its width on 64-bit builds: a two's complement  *)
(* word of IntSize bits, held as little-endian limbs of 16 bits, so that   *)
(* RandIntMax - RandIntMin + 1 wraps exactly as the compiled code does.    *)
(***************************************************************************)
EXTENDS Integers, Sequences, FiniteSets, TLC

VARIABLES
    e,        \* the ExtraPlaceholders instance (its exported fields)
    phase,    \* where the host is in the module's life cycle
    lastErr,  \* the error the last life-cycle call returned ("" for nil)
    clock,    \* the wall clock: Unix seconds
    zone,     \* time.Local: [name, offset] (offset east of UTC, in seconds)
    config,   \* the configuration the host holds: the instance as parsed, the
              \* options its block gave, and the block while the parser holds it
    req       \* the requests being served: one record per request slot

vars == <<e, phase, lastErr, clock, zone, config, req>>

(***************************************************************************)
(* Go's int: IntSize-bit two's complement, as little-endian 16-bit limbs.  *)
(***************************************************************************)
IntSize == 64

LimbBase == 2^16

NLimbs == IntSize \div 16

Limbs == 1..NLimbs

IntZero == [i \in Limbs |-> 0]

IntOne == [i \in Limbs |-> IF i = 1 THEN 1 ELSE 0]

\* math.MaxInt and math.MinInt
IntMax == [i \in Limbs |-> IF i = NLimbs THEN LimbBase \div 2 - 1 ELSE LimbBase - 1]

IntMin == [i \in Limbs |-> IF i = NLimbs THEN LimbBase \div 2 ELSE 0]

RECURSIVE AddLimbs(_, _, _)
AddLimbs(a, b, carry) ==
    IF Len(a) = 0 THEN <<>>
    ELSE LET s == Head(a) + Head(b) + carry
         IN  <<s % LimbBase>> \o AddLimbs(Tail(a), Tail(b), s \div LimbBase)

\* a + b, a - b, -a: wrapping modulo 2^IntSize, as Go's + and - on int do
IntNot(a) == [i \in Limbs |-> LimbBase - 1 - a[i]]

IntAdd(a, b) == AddLimbs(a, b, 0)

IntSub(a, b) == AddLimbs(a, IntNot(b), 1)

IntNeg(a) == AddLimbs(IntNot(a), IntZero, 1)

IntIsNeg(a) == a[NLimbs] >= LimbBase \div 2

RECURSIVE ULessFrom(_, _, _)
ULessFrom(a, b, i) ==
    IF i = 0 THEN FALSE
    ELSE IF a[i] # b[i] THEN a[i] < b[i]
    ELSE ULessFrom(a, b, i - 1)

\* a < b and a <= b on signed words
IntLess(a, b) ==
    IF IntIsNeg(a) # IntIsNeg(b) THEN IntIsNeg(a) ELSE ULessFrom(a, b, NLimbs)

IntLeq(a, b) == a = b \/ IntLess(a, b)

RECURSIVE NatLimbs(_, _)
NatLimbs(n, k) ==
    IF k = 0 THEN <<>> ELSE <<n % LimbBase>> \o NatLimbs(n \div LimbBase, k - 1)

\* the Go int holding the (small) integer n
I64(n) == IF n >= 0 THEN NatLimbs(n, NLimbs) ELSE IntNeg(NatLimbs(-n, NLimbs))

\* the integer a Go int holds, for the words that fit TLC's integers
Small(a) ==
    LET m == IF IntIsNeg(a) THEN IntNeg(a) ELSE a
        v == m[1] + LimbBase * m[2]
    IN  IF IntIsNeg(a) THEN -v ELSE v

IsSmall(a) ==
    LET m == IF IntIsNeg(a) THEN IntNeg(a) ELSE a
    IN  /\ \A i \in Limbs : i > 2 => m[i] = 0
        /\ m[2] < LimbBase \div 4

(***************************************************************************)
(* strconv.Atoi: an optional sign, then decimal digits; an error for an    *)
(* empty string, a non-digit, or a value outside [MinInt, MaxInt].         *)
(***************************************************************************)
Digits == <<"0", "1", "2", "3", "4", "5", "6", "7", "8", "9">>

IsDigit(c) == \E i \in 1..10 : Digits[i] = c

DigitVal(c) == (CHOOSE i \in 1..10 : Digits[i] = c) - 1

\* m * 10 + d on an unsigned word: [v, overflow]
RECURSIVE MulAddLimbs(_, _)
MulAddLimbs(m, carry) ==
    IF Len(m) = 0 THEN [v |-> <<>>, c |-> carry]
    ELSE LET s    == Head(m) * 10 + carry
             rest == MulAddLimbs(Tail(m), s \div LimbBase)
         IN  [v |-> <<s % LimbBase>> \o rest.v, c |-> rest.c]

\* the unsigned magnitude of a digit string: [ok, v]; ok is FALSE for a
\* non-digit and for a magnitude of 2^IntSize or more
RECURSIVE ParseDigits(_, _)
ParseDigits(s, acc) ==
    IF Len(s) = 0 THEN [ok |-> TRUE, v |-> acc]
    ELSE IF ~IsDigit(Head(s)) THEN [ok |-> FALSE, v |-> acc]
    ELSE LET r == MulAddLimbs(acc, DigitVal(Head(s)))
         IN  IF r.c # 0 THEN [ok |-> FALSE, v |-> acc]
             ELSE ParseDigits(Tail(s), r.v)

Atoi(s) ==
    LET signed == Len(s) > 0 /\ Head(s) \in {"+", "-"}
        neg    == Len(s) > 0 /\ Head(s) = "-"
        body   == IF signed THEN Tail(s) ELSE s
        p      == ParseDigits(body, IntZero)
    IN  IF Len(body) = 0 \/ ~p.ok THEN [ok |-> FALSE, v |-> IntZero]
        ELSE IF ~neg /\ IntIsNeg(p.v) THEN [ok |-> FALSE, v |-> IntZero]
        ELSE IF neg /\ IntIsNeg(p.v) /\ p.v # IntMin THEN [ok |-> FALSE, v |-> IntZero]
        ELSE [ok |-> TRUE, v |-> IF neg THEN IntNeg(p.v) ELSE p.v]

(***************************************************************************)
(* fmt.Sprintf("%02d", n) and strconv.Itoa for the integers the handler    *)
(* renders: decimal digits, a minus sign for a negative value, and at      *)
(* least two digits after zero padding.                                    *)
(***************************************************************************)
RECURSIVE NatString(_)
NatString(n) ==
    IF n < 10 THEN Digits[n + 1] ELSE NatString(n \div 10) \o Digits[(n % 10) + 1]

Itoa(n) == IF n < 0 THEN "-" \o NatString(-n) ELSE NatString(n)

\* a word of limbs divided by ten, from limb i down: quotient and remainder
RECURSIVE DivTenFrom(_, _, _)
DivTenFrom(m, i, rem) ==
    IF i = 0 THEN [q |-> <<>>, r |-> rem]
    ELSE LET cur  == rem * LimbBase + m[i]
             rest == DivTenFrom(m, i - 1, cur % 10)
         IN  [q |-> Append(rest.q, cur \div 10), r |-> rest.r]

\* the decimal digits of an unsigned word ("" for zero)
RECURSIVE UDecimal(_)
UDecimal(m) ==
    IF m = IntZero THEN ""
    ELSE LET d == DivTenFrom(m, NLimbs, 0)
         IN  UDecimal(d.q) \o Digits[d.r + 1]

\* the verb %d applied to a Go int
IntString(a) ==
    IF a = IntZero THEN "0"
    ELSE IF IntIsNeg(a) THEN "-" \o UDecimal(IntNeg(a))
    ELSE UDecimal(a)

\* a variant of Sprintf02d without the zero padding; C11 tells the two apart
Sprintf02dUnpadded(n) == Itoa(n)

\* %02d: the width counts the sign, and the zeros follow it
Sprintf02d(n) ==
    IF n < 0 THEN "-" \o NatString(-n)
    ELSE IF n < 10 THEN "0" \o NatString(n)
    ELSE NatString(n)

(***************************************************************************)
(* time.Time: an instant (Unix seconds) in a location (a fixed offset and  *)
(* an abbreviation). The accessors compute the civil date and time of      *)
(* unix + offset in the proleptic Gregorian calendar.                      *)
(***************************************************************************)
UTCLoc == [name |-> "UTC", offset |-> 0]

\* a variant of InUTC that leaves the location as it is; C12 tells the two apart
InLocal(t) == t

\* t.UTC(): the same instant, in UTC
InUTC(t) == [unix |-> t.unix, loc |-> UTCLoc]

SecondsPerDay == 24 * 60 * 60

\* \div and % round towards minus infinity, as the civil date of an instant needs
LocalSecs(t) == t.unix + t.loc.offset

DayNumber(t) == LocalSecs(t) \div SecondsPerDay

SecOfDay(t) == LocalSecs(t) % SecondsPerDay

Hour(t) == SecOfDay(t) \div 3600

Minute(t) == (SecOfDay(t) % 3600) \div 60

Second(t) == SecOfDay(t) % 60

\* time.Weekday: Sunday = 0; 1 January 1970 was a Thursday
Weekday(t) == (DayNumber(t) + 4) % 7

IsLeap(y) == y % 4 = 0 /\ (y % 100 # 0 \/ y % 400 = 0)

DaysInYear(y) == IF IsLeap(y) THEN 366 ELSE 365

\* days from 1 January 1970 to 1 January of year y
DaysBeforeYear(y) ==
    LET p == y - 1
    IN  365 * (y - 1970) + (p \div 4 - 1969 \div 4) - (p \div 100 - 1969 \div 100)
            + (p \div 400 - 1969 \div 400)

\* the civil year of a day number: the y with DaysBeforeYear(y) <= d < DaysBeforeYear(y+1)
YearOfDay(d) ==
    LET guess == 1970 + d \div 365
    IN  CHOOSE y \in (guess - 2)..(guess + 1) :
            DaysBeforeYear(y) <= d /\ d < DaysBeforeYear(y + 1)

\* t.YearDay() - 1: the day of the year, from 0
YDay(d) == d - DaysBeforeYear(YearOfDay(d))

DaysBeforeMonth(y, m) ==
    LET cum == <<0, 31, 59, 90, 120, 151, 181, 212, 243, 273, 304, 334, 365>>
    IN  cum[m] + (IF m > 2 /\ IsLeap(y) THEN 1 ELSE 0)

MonthOfDay(d) ==
    LET y == YearOfDay(d)
    IN  CHOOSE m \in 1..12 :
            DaysBeforeMonth(y, m) <= YDay(d) /\ YDay(d) < DaysBeforeMonth(y, m + 1)

Year(t) == YearOfDay(DayNumber(t))

Month(t) == MonthOfDay(DayNumber(t))

Day(t) ==
    LET d == DayNumber(t)
    IN  YDay(d) - DaysBeforeMonth(YearOfDay(d), MonthOfDay(d)) + 1

\* a variant of ISOThursday for weeks that begin on Sunday; C15 tells the
\* two apart
ISOThursdaySundayFirst(t) == DayNumber(t) + 4 - Weekday(t)

\* t.ISOWeek(): move to the Thursday of t's week (Monday first); its year is
\* the ISO year and its day of the year gives the week
ISOThursday(t) ==
    LET wd == Weekday(t)
        d  == 4 - wd
    IN  DayNumber(t) + (IF d = 4 THEN -3 ELSE d)

ISOYear(t) == YearOfDay(ISOThursday(t))

ISOWeek(t) == YDay(ISOThursday(t)) \div 7 + 1

(***************************************************************************)
(* t.Format(layout): the layout is cut into the chunks of the reference    *)
(* time (nextStdChunk), each chunk is replaced by the field of t it stands *)
(* for, and every other character is copied.                               *)
(***************************************************************************)
HasPrefix(s, p) == Len(s) >= Len(p) /\ SubSeq(s, 1, Len(p)) = p

Drop(s, n) == SubSeq(s, n + 1, Len(s))

\* the character of s at position i, "" past its end
CharAt(s, i) == IF i <= Len(s) THEN SubSeq(s, i, i) ELSE ""

RECURSIVE ZeroPad(_, _)
ZeroPad(str, width) == IF Len(str) >= width THEN str ELSE ZeroPad("0" \o str, width)

\* appendInt(b, x, width): the sign, then the digits zero padded to the width
appendInt(x, width) ==
    IF x < 0 THEN "-" \o ZeroPad(NatString(-x), width) ELSE ZeroPad(NatString(x), width)

LowerCase ==
    { "a", "b", "c", "d", "e", "f", "g", "h", "i", "j", "k", "l", "m",
      "n", "o", "p", "q", "r", "s", "t", "u", "v", "w", "x", "y", "z" }

startsWithLowerCase(str) == Len(str) > 0 /\ Head(str) \in LowerCase

longMonthNames ==
    << "January", "February", "March", "April", "May", "June", "July",
       "August", "September", "October", "November", "December" >>

\* indexed by Weekday + 1, Sunday first
longDayNames ==
    << "Sunday", "Monday", "Tuesday", "Wednesday", "Thursday", "Friday", "Saturday" >>

\* a chunk: its kind ("" for a character that is copied), its length in
\* the layout, and for fractional seconds the number of digits
Chunk(std, len) == [std |-> std, len |-> len, digits |-> 0]

\* the first position from j on where layout does not hold ch
RECURSIVE EndOfRun(_, _, _)
EndOfRun(layout, j, ch) ==
    IF CharAt(layout, j) = ch THEN EndOfRun(layout, j + 1, ch) ELSE j

\* the chunk at the head of a layout
nextStdChunk(layout) ==
    LET c == Head(layout)
        copy == Chunk("", 1)
    IN  IF c = "J" THEN
            IF HasPrefix(layout, "January") THEN Chunk("stdLongMonth", 7)
            ELSE IF HasPrefix(layout, "Jan") /\ ~startsWithLowerCase(Drop(layout, 3))
                 THEN Chunk("stdMonth", 3)
            ELSE copy
        ELSE IF c = "M" THEN
            IF HasPrefix(layout, "Monday") THEN Chunk("stdLongWeekDay", 6)
            ELSE IF HasPrefix(layout, "Mon") /\ ~startsWithLowerCase(Drop(layout, 3))
                 THEN Chunk("stdWeekDay", 3)
            ELSE IF HasPrefix(layout, "MST") THEN Chunk("stdTZ", 3)
            ELSE copy
        ELSE IF c = "0" THEN
            IF CharAt(layout, 2) = "1" THEN Chunk("stdZeroMonth", 2)
            ELSE IF CharAt(layout, 2) = "2" THEN Chunk("stdZeroDay", 2)
            ELSE IF CharAt(layout, 2) = "3" THEN Chunk("stdZeroHour12", 2)
            ELSE IF CharAt(layout, 2) = "4" THEN Chunk("stdZeroMinute", 2)
            ELSE IF CharAt(layout, 2) = "5" THEN Chunk("stdZeroSecond", 2)
            ELSE IF CharAt(layout, 2) = "6" THEN Chunk("stdYear", 2)
            ELSE IF HasPrefix(layout, "002") THEN Chunk("stdZeroYearDay", 3)
            ELSE copy
        ELSE IF c = "1" THEN
            IF CharAt(layout, 2) = "5" THEN Chunk("stdHour", 2) ELSE Chunk("stdNumMonth", 1)
        ELSE IF c = "2" THEN
            IF HasPrefix(layout, "2006") THEN Chunk("stdLongYear", 4) ELSE Chunk("stdDay", 1)
        ELSE IF c = "_" THEN
            IF CharAt(layout, 2) = "2" THEN
                \* _2006 is a literal _ followed by the year
                IF HasPrefix(layout, "_2006") THEN copy ELSE Chunk("stdUnderDay", 2)
            ELSE IF HasPrefix(layout, "__2") THEN Chunk("stdUnderYearDay", 3)
            ELSE copy
        ELSE IF c = "3" THEN Chunk("stdHour12", 1)
        ELSE IF c = "4" THEN Chunk("stdMinute", 1)
        ELSE IF c = "5" THEN Chunk("stdSecond", 1)
        ELSE IF c = "P" THEN
            IF CharAt(layout, 2) = "M" THEN Chunk("stdPM", 2) ELSE copy
        ELSE IF c = "p" THEN
            IF CharAt(layout, 2) = "m" THEN Chunk("stdpm", 2) ELSE copy
        ELSE IF c = "-" THEN
            IF HasPrefix(layout, "-070000") THEN Chunk("stdNumSecondsTz", 7)
            ELSE IF HasPrefix(layout, "-07:00:00") THEN Chunk("stdNumColonSecondsTZ", 9)
            ELSE IF HasPrefix(layout, "-0700") THEN Chunk("stdNumTZ", 5)
            ELSE IF HasPrefix(layout, "-07:00") THEN Chunk("stdNumColonTZ", 6)
            ELSE IF HasPrefix(layout, "-07") THEN Chunk("stdNumShortTZ", 3)
            ELSE copy
        ELSE IF c = "Z" THEN
            IF HasPrefix(layout, "Z070000") THEN Chunk("stdISO8601SecondsTZ", 7)
            ELSE IF HasPrefix(layout, "Z07:00:00") THEN Chunk("stdISO8601ColonSecondsTZ", 9)
            ELSE IF HasPrefix(layout, "Z0700") THEN Chunk("stdISO8601TZ", 5)
            ELSE IF HasPrefix(layout, "Z07:00") THEN Chunk("stdISO8601ColonTZ", 6)
            ELSE IF HasPrefix(layout, "Z07") THEN Chunk("stdISO8601ShortTZ", 3)
            ELSE copy
        ELSE IF c \in {".", ","} /\ CharAt(layout, 2) \in {"0", "9"} THEN
            \* a run of 0s or of 9s that no other digit follows
            LET j == EndOfRun(layout, 2, CharAt(layout, 2))
            IN  IF IsDigit(CharAt(layout, j)) THEN copy
                ELSE [ std |-> IF CharAt(layout, 2) = "9" THEN "stdFracSecond9"
                               ELSE "stdFracSecond0",
                       len |-> j - 1, digits |-> j - 2 ]
        ELSE copy

\* x / y and x % y of Go: the quotient truncated toward zero
Quo(x, y) == IF x < 0 THEN -((-x) \div y) ELSE x \div y

Rem(x, y) == x - y * Quo(x, y)

\* the numeric zone chunks: the sign is that of the offset in whole
\* minutes; colon, short and secs select the chunk's form
appendZone(offset, colon, short, secs) ==
    LET zoneMin   == Quo(offset, 60)
        absoffset == IF zoneMin < 0 THEN -offset ELSE offset
        mins      == IF zoneMin < 0 THEN -zoneMin ELSE zoneMin
    IN  (IF zoneMin < 0 THEN "-" ELSE "+")
            \o appendInt(Quo(mins, 60), 2)
            \o (IF colon THEN ":" ELSE "")
            \o (IF short THEN "" ELSE appendInt(Rem(mins, 60), 2))
            \o (IF secs THEN (IF colon THEN ":" ELSE "") \o appendInt(Rem(absoffset, 60), 2)
                ELSE "")

\* the -0700 chunk: sign, hours and minutes of the offset east of UTC
OffsetString(t) == appendZone(t.loc.offset, FALSE, FALSE, FALSE)

\* t.Nanosecond(): the clock of the model counts whole seconds, so a time
\* value carries nanoseconds only where one is given
Nanosecond(t) == IF "nsec" \in DOMAIN t THEN t.nsec ELSE 0

RECURSIVE TrimZeros(_)
TrimZeros(str) ==
    IF Len(str) > 0 /\ SubSeq(str, Len(str), Len(str)) = "0"
    THEN TrimZeros(SubSeq(str, 1, Len(str) - 1))
    ELSE str

\* appendNano: the separator and the first n of the nine digits; the 9
\* form drops trailing zeros, and the separator with them when none is left
appendNano(nanosec, n, sep, trim) ==
    IF trim /\ (n = 0 \/ nanosec = 0) THEN ""
    ELSE LET nine == ZeroPad(NatString(nanosec), 9)
             kept == IF n < 9 THEN SubSeq(nine, 1, n) ELSE nine
         IN  IF ~trim THEN sep \o kept
             ELSE IF TrimZeros(kept) = "" THEN ""
             ELSE sep \o TrimZeros(kept)

\* what a chunk of the layout is replaced by
appendStd(t, c, sep) ==
    LET std    == c.std
        hr     == Hour(t) % 12
        hour12 == IF hr = 0 THEN 12 ELSE hr
        yday   == YDay(DayNumber(t)) + 1
        isoZ   == std \in { "stdISO8601TZ", "stdISO8601ColonTZ", "stdISO8601SecondsTZ",
                            "stdISO8601ShortTZ", "stdISO8601ColonSecondsTZ" }
        colon  == std \in { "stdISO8601ColonTZ", "stdNumColonTZ",
                            "stdISO8601ColonSecondsTZ", "stdNumColonSecondsTZ" }
        short  == std \in { "stdNumShortTZ", "stdISO8601ShortTZ" }
        secs   == std \in { "stdISO8601SecondsTZ", "stdNumSecondsTz",
                            "stdISO8601ColonSecondsTZ", "stdNumColonSecondsTZ" }
    IN  IF std = "stdYear" THEN appendInt(Rem(Year(t), 100), 2)
        ELSE IF std = "stdLongYear" THEN appendInt(Year(t), 4)
        ELSE IF std = "stdMonth" THEN SubSeq(longMonthNames[Month(t)], 1, 3)
        ELSE IF std = "stdLongMonth" THEN longMonthNames[Month(t)]
        ELSE IF std = "stdNumMonth" THEN appendInt(Month(t), 0)
        ELSE IF std = "stdZeroMonth" THEN appendInt(Month(t), 2)
        ELSE IF std = "stdWeekDay" THEN SubSeq(longDayNames[Weekday(t) + 1], 1, 3)
        ELSE IF std = "stdLongWeekDay" THEN longDayNames[Weekday(t) + 1]
        ELSE IF std = "stdDay" THEN appendInt(Day(t), 0)
        ELSE IF std = "stdUnderDay" THEN
            (IF Day(t) < 10 THEN " " ELSE "") \o appendInt(Day(t), 0)
        ELSE IF std = "stdZeroDay" THEN appendInt(Day(t), 2)
        ELSE IF std = "stdUnderYearDay" THEN
            (IF yday < 100 THEN " " ELSE "") \o (IF yday < 10 THEN " " ELSE "")
                \o appendInt(yday, 0)
        ELSE IF std = "stdZeroYearDay" THEN appendInt(yday, 3)
        ELSE IF std = "stdHour" THEN appendInt(Hour(t), 2)
        ELSE IF std = "stdHour12" THEN appendInt(hour12, 0)
        ELSE IF std = "stdZeroHour12" THEN appendInt(hour12, 2)
        ELSE IF std = "stdMinute" THEN appendInt(Minute(t), 0)
        ELSE IF std = "stdZeroMinute" THEN appendInt(Minute(t), 2)
        ELSE IF std = "stdSecond" THEN appendInt(Second(t), 0)
        ELSE IF std = "stdZeroSecond" THEN appendInt(Second(t), 2)
        ELSE IF std = "stdPM" THEN (IF Hour(t) >= 12 THEN "PM" ELSE "AM")
        ELSE IF std = "stdpm" THEN (IF Hour(t) >= 12 THEN "pm" ELSE "am")
        ELSE IF std = "stdTZ" THEN
            \* the abbreviation, or the -0700 form for a zone without one
            (IF t.loc.name # "" THEN t.loc.name
             ELSE appendZone(t.loc.offset, FALSE, FALSE, FALSE))
        ELSE IF std \in {"stdFracSecond0", "stdFracSecond9"} THEN
            appendNano(Nanosecond(t), c.digits, sep, std = "stdFracSecond9")
        ELSE IF isoZ /\ t.loc.offset = 0 THEN "Z"
        ELSE appendZone(t.loc.offset, colon, short, secs)

RECURSIVE Format(_, _)
Format(t, layout) ==
    IF Len(layout) = 0 THEN ""
    ELSE LET c == nextStdChunk(layout)
         IN  (IF c.std = "" THEN Head(layout) ELSE appendStd(t, c, Head(layout)))
                 \o Format(t, Drop(layout, c.len))

(***************************************************************************)
(* (time.Duration(uptime) * time.Second).String(): hours, minutes and      *)
(* seconds, the leading zero units left out ("0s" for zero).               *)
(***************************************************************************)
DurationString(secs) ==
    LET h == secs \div 3600
        m == (secs % 3600) \div 60
        sec == secs % 60
    IN  IF h > 0 THEN Itoa(h) \o "h" \o Itoa(m) \o "m" \o Itoa(sec) \o "s"
        ELSE IF m > 0 THEN Itoa(m) \o "m" \o Itoa(sec) \o "s"
        ELSE Itoa(sec) \o "s"

(***************************************************************************)
(* Bounds of the model and the inputs the environment draws from.          *)
(***************************************************************************)
\* lines of one extra_placeholders block
MaxLines == 2

\* seconds the clock may advance
MaxTicks == 2

\* requests in flight at once
MaxRequests == 2

\* rand.Float64 and the load averages are held in units of 1/FloatDen
FloatDen == 4

Requests == 1..MaxRequests

\* the subdirective lines a block is made of: the tokens of each line
SubdirectiveLines ==
    { <<"rand_int", "10", "50">>,
      <<"rand_int", "-5", "5">>,
      <<"rand_int", "0", "0">>,
      <<"rand_int", "5", "5">>,
      <<"rand_int", "50", "10">>,
      <<"rand_int", "0", "9223372036854775807">>,
      <<"rand_int">>,
      <<"rand_int", "10">>,
      <<"rand_int", "1", "2", "3">>,
      <<"rand_int", "10", "abc">>,
      <<"rand_int", "1", "9223372036854775808">>,
      <<"time_format_custom", "02.01.2006 15:04:05">>,
      <<"time_format_custom", "{http.request.uri.query.format}">>,
      <<"time_format_custom">>,
      <<"disable_loadavg_placeholders">>,
      <<"disable_loadavg_placeholders", "rand_int", "10", "50">>,
      <<"bogus">> }

Blocks == UNION { [1..n -> SubdirectiveLines] : n \in 0..MaxLines }

\* time.Local of the server
Zones ==
    { UTCLoc,
      [name |-> "CET", offset |-> 3600],
      [name |-> "EST", offset |-> -18000] }

\* 2024-12-31 23:59:58 UTC
ClockStarts == { 1735689598 }

\* the instants SpecHandler starts the clock at, two seconds before midnight
\* UTC: 31 December 2024, Sunday 3 January 2021 (week 53 of 2020), Sunday
\* 30 December 2018 (the eve of week 1 of 2019) and 28 February 2024
HandlerClockStarts == ClockStarts \cup { 1609718398, 1546214398, 1709164798 }

\* host.Uptime() results, in seconds
Uptimes == { 3723 }

\* load.Avg() results: Load1, Load5, Load15
LoadSamples == { [Load1 |-> 3, Load5 |-> 2, Load15 |-> 1] }

(***************************************************************************)
(* The values a replacer holds, and the replacer itself: a map from key    *)
(* to value. A Go int is held as a word, a float64 in units of 1/FloatDen. *)
(***************************************************************************)
IntVal(a) == [kind |-> "int", int |-> a, num |-> 0, str |-> ""]

FloatVal(n) == [kind |-> "float", int |-> IntZero, num |-> n, str |-> ""]

StrVal(str) == [kind |-> "string", int |-> IntZero, num |-> 0, str |-> str]

\* a variant of Put that keeps the entry a key already has; C28 tells the
\* two apart
PutIfAbsent(m, k, v) == [x \in DOMAIN m \cup {k} |-> IF x = k /\ k \notin DOMAIN m THEN v ELSE m[x]]

\* repl.Set(key, value)
Put(m, k, v) == [x \in DOMAIN m \cup {k} |-> IF x = k THEN v ELSE m[x]]

\* what the request's replacer holds when the handler is called: entries of
\* other modules, and a value an earlier extra_placeholders handler left
InitialStore ==
    [k \in {"http.request.method", "extra.rand.int"} |->
        IF k = "http.request.method" THEN StrVal("GET") ELSE IntVal(I64(-1))]

EmptyStore == [k \in {} |-> StrVal("")]

\* the values of the query parameter "format" the requests come with
Queries == {"02.01.2006", "15:04"}

\* the replacer of a request whose query holds format=q
RequestStore(q) == Put(InitialStore, "http.request.uri.query.format", StrVal(q))

\* caddy.Version()
SimpleVersion == "v2.8.4"

FullVersion == "v2.8.4 h1:q3pe0wpBj1OcHFZ3n/1nl4V4bxBrYoSoab7rL9BMYNk="

(***************************************************************************)
(* The instance and its life cycle in the host.                            *)
(***************************************************************************)
defaultTimeFormatCustom == "2006-01-02 15:04:05"

\* the zero value of the struct: what new(ExtraPlaceholders) holds
ZeroInstance ==
    [ RandIntMin |-> IntZero,
      RandIntMax |-> IntZero,
      TimeFormatCustom |-> "",
      DisableLoadavgPlaceholders |-> FALSE ]

\* the dispenser's tokens after the directive name: each with its line
RECURSIVE Tokens(_, _)
Tokens(block, line) ==
    IF line > Len(block) THEN <<>>
    ELSE [j \in 1..Len(block[line]) |-> [text |-> block[line][j], line |-> line]]
             \o Tokens(block, line + 1)

\* d.RemainingArgs(): the tokens that follow the cursor on its line
RemainingArgs(toks, cur) ==
    LET n == Cardinality({j \in (cur + 1)..Len(toks) : toks[j].line = toks[cur].line})
    IN  [j \in 1..n |-> toks[cur + j].text]

\* d.NextArg(): whether a token follows the cursor on its line
NextArg(toks, cur) == cur < Len(toks) /\ toks[cur + 1].line = toks[cur].line

ArgErr == "wrong argument count or unexpected line ending"

\* a variant of UnmarshalFrom in which the first rand_int and the first
\* time_format_custom of a block win; C26 tells the two apart
RECURSIVE UnmarshalFromFirstWins(_, _, _)
UnmarshalFromFirstWins(inst, toks, pos) ==
    IF pos >= Len(toks) THEN [e |-> inst, err |-> ""]
    ELSE
    LET cur == pos + 1
        val == toks[cur].text
        args == RemainingArgs(toks, cur)
    IN  IF val = "rand_int" THEN
            IF Len(args) # 2 THEN [e |-> inst, err |-> ArgErr]
            ELSE IF ~Atoi(args[1]).ok \/ ~Atoi(args[2]).ok THEN [e |-> inst, err |-> ArgErr]
            ELSE IF inst.RandIntMin # IntZero \/ inst.RandIntMax # IntZero
                 THEN UnmarshalFromFirstWins(inst, toks, cur + 2)
            ELSE UnmarshalFromFirstWins([inst EXCEPT !.RandIntMin = Atoi(args[1]).v,
                                                     !.RandIntMax = Atoi(args[2]).v],
                                        toks, cur + 2)
        ELSE IF val = "time_format_custom" THEN
            IF ~NextArg(toks, cur) THEN [e |-> inst, err |-> ArgErr]
            ELSE IF inst.TimeFormatCustom # ""
                 THEN UnmarshalFromFirstWins(inst, toks, cur + 1)
            ELSE UnmarshalFromFirstWins([inst EXCEPT !.TimeFormatCustom = toks[cur + 1].text],
                                        toks, cur + 1)
        ELSE IF val = "disable_loadavg_placeholders" THEN
            UnmarshalFromFirstWins([inst EXCEPT !.DisableLoadavgPlaceholders = TRUE], toks, cur)
        ELSE [e |-> inst, err |-> "unknown subdirective: " \o val]

\* a variant of UnmarshalFrom that refuses a rand_int whose max is not
\* above its min; C25 tells the two apart
RECURSIVE UnmarshalFromOrdered(_, _, _)
UnmarshalFromOrdered(inst, toks, pos) ==
    IF pos >= Len(toks) THEN [e |-> inst, err |-> ""]
    ELSE
    LET cur == pos + 1
        val == toks[cur].text
        args == RemainingArgs(toks, cur)
    IN  IF val = "rand_int" THEN
            IF Len(args) # 2 THEN [e |-> inst, err |-> ArgErr]
            ELSE IF ~Atoi(args[1]).ok \/ ~Atoi(args[2]).ok THEN [e |-> inst, err |-> ArgErr]
            ELSE IF IntLeq(Atoi(args[2]).v, Atoi(args[1]).v) THEN [e |-> inst, err |-> ArgErr]
            ELSE UnmarshalFromOrdered([inst EXCEPT !.RandIntMin = Atoi(args[1]).v,
                                                   !.RandIntMax = Atoi(args[2]).v],
                                      toks, cur + 2)
        ELSE IF val = "time_format_custom" THEN
            IF NextArg(toks, cur)
            THEN UnmarshalFromOrdered([inst EXCEPT !.TimeFormatCustom = toks[cur + 1].text],
                                      toks, cur + 1)
            ELSE [e |-> inst, err |-> ArgErr]
        ELSE IF val = "disable_loadavg_placeholders" THEN
            UnmarshalFromOrdered([inst EXCEPT !.DisableLoadavgPlaceholders = TRUE], toks, cur)
        ELSE [e |-> inst, err |-> "unknown subdirective: " \o val]

\* a variant of UnmarshalFrom that skips a subdirective it does not know;
\* C24 tells the two apart
RECURSIVE UnmarshalFromLenient(_, _, _)
UnmarshalFromLenient(inst, toks, pos) ==
    IF pos >= Len(toks) THEN [e |-> inst, err |-> ""]
    ELSE
    LET cur == pos + 1
        val == toks[cur].text
        args == RemainingArgs(toks, cur)
    IN  IF val = "rand_int" THEN
            IF Len(args) # 2 THEN [e |-> inst, err |-> ArgErr]
            ELSE IF ~Atoi(args[1]).ok \/ ~Atoi(args[2]).ok THEN [e |-> inst, err |-> ArgErr]
            ELSE UnmarshalFromLenient([inst EXCEPT !.RandIntMin = Atoi(args[1]).v,
                                                   !.RandIntMax = Atoi(args[2]).v],
                                      toks, cur + 2)
        ELSE IF val = "time_format_custom" THEN
            IF NextArg(toks, cur)
            THEN UnmarshalFromLenient([inst EXCEPT !.TimeFormatCustom = toks[cur + 1].text],
                                      toks, cur + 1)
            ELSE [e |-> inst, err |-> ArgErr]
        ELSE IF val = "disable_loadavg_placeholders" THEN
            UnmarshalFromLenient([inst EXCEPT !.DisableLoadavgPlaceholders = TRUE], toks, cur)
        ELSE UnmarshalFromLenient(inst, toks, cur)

\* a variant of UnmarshalFrom that assigns RandIntMin as soon as the first
\* argument has parsed; C23 tells the two apart
RECURSIVE UnmarshalFromEagerMin(_, _, _)
UnmarshalFromEagerMin(inst, toks, pos) ==
    IF pos >= Len(toks) THEN [e |-> inst, err |-> ""]
    ELSE
    LET cur == pos + 1
        val == toks[cur].text
        args == RemainingArgs(toks, cur)
    IN  IF val = "rand_int" THEN
            IF Len(args) # 2 THEN [e |-> inst, err |-> ArgErr]
            ELSE IF ~Atoi(args[1]).ok THEN [e |-> inst, err |-> ArgErr]
            ELSE IF ~Atoi(args[2]).ok
            THEN [e |-> [inst EXCEPT !.RandIntMin = Atoi(args[1]).v], err |-> ArgErr]
            ELSE UnmarshalFromEagerMin([inst EXCEPT !.RandIntMin = Atoi(args[1]).v,
                                                    !.RandIntMax = Atoi(args[2]).v],
                                       toks, cur + 2)
        ELSE IF val = "time_format_custom" THEN
            IF NextArg(toks, cur)
            THEN UnmarshalFromEagerMin([inst EXCEPT !.TimeFormatCustom = toks[cur + 1].text],
                                       toks, cur + 1)
            ELSE [e |-> inst, err |-> ArgErr]
        ELSE IF val = "disable_loadavg_placeholders" THEN
            UnmarshalFromEagerMin([inst EXCEPT !.DisableLoadavgPlaceholders = TRUE], toks, cur)
        ELSE [e |-> inst, err |-> "unknown subdirective: " \o val]

\* the loop of UnmarshalCaddyfile from the cursor on: [e, err]
RECURSIVE UnmarshalFrom(_, _, _)
UnmarshalFrom(inst, toks, pos) ==
    IF pos >= Len(toks) THEN [e |-> inst, err |-> ""]
    ELSE
    LET cur == pos + 1
        val == toks[cur].text
        args == RemainingArgs(toks, cur)
    IN  IF val = "rand_int" THEN
            IF Len(args) # 2 THEN [e |-> inst, err |-> ArgErr]
            ELSE IF ~Atoi(args[1]).ok \/ ~Atoi(args[2]).ok THEN [e |-> inst, err |-> ArgErr]
            ELSE UnmarshalFrom([inst EXCEPT !.RandIntMin = Atoi(args[1]).v,
                                            !.RandIntMax = Atoi(args[2]).v],
                               toks, cur + 2)
        ELSE IF val = "time_format_custom" THEN
            IF NextArg(toks, cur)
            THEN UnmarshalFrom([inst EXCEPT !.TimeFormatCustom = toks[cur + 1].text],
                               toks, cur + 1)
            ELSE [e |-> inst, err |-> ArgErr]
        ELSE IF val = "disable_loadavg_placeholders" THEN
            UnmarshalFrom([inst EXCEPT !.DisableLoadavgPlaceholders = TRUE], toks, cur)
        ELSE [e |-> inst, err |-> "unknown subdirective: " \o val]

\* a variant of Provisioned that puts the default range in place of every
\* range with max <= min; C22 tells the two apart
ProvisionedRepairing(inst) ==
    LET ranged == IF IntLeq(inst.RandIntMax, inst.RandIntMin)
                  THEN [inst EXCEPT !.RandIntMin = I64(0), !.RandIntMax = I64(100)]
                  ELSE inst
    IN  IF ranged.TimeFormatCustom = ""
        THEN [ranged EXCEPT !.TimeFormatCustom = defaultTimeFormatCustom]
        ELSE ranged

\* a variant of Provisioned whose default range is 0..10; C5 tells the two apart
ProvisionedNarrow(inst) ==
    LET ranged == IF inst.RandIntMin = IntZero /\ inst.RandIntMax = IntZero
                  THEN [inst EXCEPT !.RandIntMin = I64(0), !.RandIntMax = I64(10)]
                  ELSE inst
    IN  IF ranged.TimeFormatCustom = ""
        THEN [ranged EXCEPT !.TimeFormatCustom = defaultTimeFormatCustom]
        ELSE ranged

\* what Provision leaves in the instance
Provisioned(inst) ==
    LET ranged == IF inst.RandIntMin = IntZero /\ inst.RandIntMax = IntZero
                  THEN [inst EXCEPT !.RandIntMin = I64(0), !.RandIntMax = I64(100)]
                  ELSE inst
    IN  IF ranged.TimeFormatCustom = ""
        THEN [ranged EXCEPT !.TimeFormatCustom = defaultTimeFormatCustom]
        ELSE ranged

\* a variant of ValidateErr that accepts RandIntMax = RandIntMin; C21 tells
\* the two apart
ValidateErrLax(inst) ==
    IF IntLess(inst.RandIntMax, inst.RandIntMin)
    THEN "invalid configuration: RandIntMax (" \o IntString(inst.RandIntMax)
             \o ") must be greater than RandIntMin (" \o IntString(inst.RandIntMin) \o ")"
    ELSE ""

\* the error Validate returns ("" for nil)
ValidateErr(inst) ==
    IF IntLeq(inst.RandIntMax, inst.RandIntMin)
    THEN "invalid configuration: RandIntMax (" \o IntString(inst.RandIntMax)
             \o ") must be greater than RandIntMin (" \o IntString(inst.RandIntMin) \o ")"
    ELSE ""

NoTime == [unix |-> 0, loc |-> UTCLoc]

\* the request slot of no request
IdleRequest ==
    [ pc |-> "idle", hasRepl |-> FALSE, recv |-> ZeroInstance, repl |-> EmptyStore,
      before |-> EmptyStore,
      writes |-> <<>>, loadErr |-> "", uptimeErr |-> "", tLocal |-> NoTime,
      tUTC |-> NoTime, nextCalls |-> 0, nextAt |-> 0, nextRet |-> "", ret |-> "" ]

\* the cases the switch of UnmarshalCaddyfile takes from the cursor on: one
\* for every token NextBlock stops at, also a second one on a line
RECURSIVE CasesFrom(_, _)
CasesFrom(toks, pos) ==
    IF pos >= Len(toks) THEN {}
    ELSE
    LET cur == pos + 1
        val == toks[cur].text
        args == RemainingArgs(toks, cur)
    IN  IF val = "rand_int" THEN
            {val} \cup (IF Len(args) = 2 /\ Atoi(args[1]).ok /\ Atoi(args[2]).ok
                        THEN CasesFrom(toks, cur + 2) ELSE {})
        ELSE IF val = "time_format_custom" THEN
            {val} \cup (IF NextArg(toks, cur) THEN CasesFrom(toks, cur + 1) ELSE {})
        ELSE IF val = "disable_loadavg_placeholders" THEN
            {val} \cup CasesFrom(toks, cur)
        ELSE {"default"}

\* the options a block names
Given(block) == CasesFrom(Tokens(block, 1), 0)

NoConfig == [inst |-> ZeroInstance, given |-> {}, block |-> <<>>]

UnmarshalCaddyfile ==
    /\ phase = "new"
    /\ \E block \in Blocks :
          LET r == UnmarshalFrom(e, Tokens(block, 1), 0)
          IN  /\ e' = r.e
              /\ lastErr' = r.err
              /\ phase' = IF r.err = "" THEN "parsed" ELSE "parse_error"
              /\ config' = IF r.err = ""
                           THEN [inst |-> r.e, given |-> Given(block), block |-> block]
                           ELSE [config EXCEPT !.block = block]
    /\ UNCHANGED <<clock, zone, req>>

Provision ==
    /\ phase = "parsed"
    /\ e' = Provisioned(e)
    /\ lastErr' = ""
    /\ phase' = "provisioned"
    /\ config' = [config EXCEPT !.block = <<>>]
    /\ UNCHANGED <<clock, zone, req>>

Validate ==
    /\ phase = "provisioned"
    /\ lastErr' = ValidateErr(e)
    /\ phase' = IF ValidateErr(e) = "" THEN "active" ELSE "invalid"
    /\ UNCHANGED <<e, clock, zone, config, req>>

(***************************************************************************)
(* ServeHTTP, one step per call it makes. A request slot holds the         *)
(* receiver (ServeHTTP has a value receiver: the call copies the           *)
(* instance), the request's replacer and what it held when the handler    *)
(* was called, the keys written so far in order, and the time values       *)
(* handed to setTimePlaceholders.                                          *)
(***************************************************************************)
SetKey(r, k, v) == [r EXCEPT !.repl = Put(r.repl, k, v), !.writes = Append(r.writes, k)]

RECURSIVE SetAll(_, _)
SetAll(r, kvs) ==
    IF Len(kvs) = 0 THEN r ELSE SetAll(SetKey(r, Head(kvs)[1], Head(kvs)[2]), Tail(kvs))

\* a variant of Update in which the requests in flight share one replacer:
\* what request i writes shows in the others; C9 tells the two apart
UpdateShared(i, r) ==
    /\ req' = [j \in Requests |->
                 IF j = i THEN r
                 ELSE IF req[j].hasRepl /\ req[j].pc # "idle" /\ r.hasRepl /\ r.pc # "idle"
                      THEN [req[j] EXCEPT !.repl = r.repl]
                      ELSE req[j]]
    /\ UNCHANGED <<e, phase, lastErr, clock, zone, config>>

\* a step of request i: it changes the request's own slot (its replacer and
\* its locals) and nothing else; the receiver is a copy, so e stays as it is
Update(i, r) ==
    /\ req' = [req EXCEPT ![i] = r]
    /\ UNCHANGED <<e, phase, lastErr, clock, zone, config>>

\* the host calls ServeHTTP for a request whose context holds a replacer or not
Serving == phase \in {"active", "direct"}

CallServeHTTP(i) ==
    /\ Serving
    /\ req[i].pc = "idle"
    /\ \E has \in BOOLEAN :
          \E q \in (IF has THEN Queries ELSE {""}) :
             Update(i, [IdleRequest EXCEPT !.pc = "start", !.hasRepl = has, !.recv = e,
                                           !.repl = IF has THEN RequestStore(q)
                                                    ELSE EmptyStore,
                                           !.before = IF has THEN RequestStore(q)
                                                      ELSE EmptyStore])

\* a variant of GetReplacer that goes on without a replacer; C7 tells the
\* two apart
GetReplacerUnchecked(i) ==
    /\ req[i].pc = "start"
    /\ Update(i, [req[i] EXCEPT !.pc = "caddy"])

\* repl, ok := r.Context().Value(caddy.ReplacerCtxKey).(*caddy.Replacer)
\* if !ok { return caddyhttp.Error(http.StatusInternalServerError, nil) }
GetReplacer(i) ==
    /\ req[i].pc = "start"
    /\ Update(i, IF req[i].hasRepl THEN [req[i] EXCEPT !.pc = "caddy"]
                 ELSE [req[i] EXCEPT !.pc = "done", !.ret = "500"])

setCaddyPlaceholders(r) ==
    SetAll(r, << <<"extra.caddy.version.simple", StrVal(SimpleVersion)>>,
                 <<"extra.caddy.version.full", StrVal(FullVersion)>> >>)

SetCaddyPlaceholders(i) ==
    /\ req[i].pc = "caddy"
    /\ Update(i, [setCaddyPlaceholders(req[i]) EXCEPT !.pc = "rand"])

\* e.RandIntMax > e.RandIntMin
RangeConfigured(inst) == IntLess(inst.RandIntMin, inst.RandIntMax)

\* e.RandIntMax - e.RandIntMin + 1
RangeSize(inst) == IntAdd(IntSub(inst.RandIntMax, inst.RandIntMin), IntOne)

\* a variant of FallbackSize that draws from 0..101; C4 tells the two apart
FallbackSizeWide == I64(102)

\* the argument of rand.Intn(101), the default range 0-100
FallbackSize == I64(101)

\* rand.Intn(n) panics unless n > 0
IntnPanics(n) == IntLeq(n, IntZero)

\* the results of rand.Intn(n) the model draws: the least, the next and the greatest
IntnDraws(n) == {IntZero, IntSub(n, IntOne)} \cup {d \in {IntOne} : IntLess(d, n)}

\* rand.Intn(e.RandIntMax-e.RandIntMin+1) + e.RandIntMin
RandIntValue(inst, d) == IntAdd(d, inst.RandIntMin)

\* the results of rand.Float64() the model draws, in units of 1/FloatDen
FloatDraws == {0, FloatDen - 1}

SetRandPlaceholders(i) ==
    /\ req[i].pc = "rand"
    /\ \E f \in FloatDraws :
          LET r1 == SetKey(req[i], "extra.rand.float", FloatVal(f))
              inst == req[i].recv
              n == IF RangeConfigured(inst) THEN RangeSize(inst) ELSE FallbackSize
          IN  IF IntnPanics(n)
              THEN Update(i, [r1 EXCEPT !.pc = "panic"])
              ELSE \E d \in IntnDraws(n) :
                      Update(i, [SetKey(r1, "extra.rand.int",
                                        IntVal(IF RangeConfigured(inst)
                                               THEN RandIntValue(inst, d) ELSE d))
                                 EXCEPT !.pc = "loadavg"])

\* a variant of LoadavgDisabled that never turns the placeholders off;
\* C17 tells the two apart
LoadavgDisabledIgnored(inst) == FALSE

\* the option that turns the load-average placeholders off
LoadavgDisabled(inst) == inst.DisableLoadavgPlaceholders

\* a variant of setLoadavgPlaceholders that writes zeros when load.Avg()
\* fails; C6 tells the two apart
setLoadavgPlaceholdersZeroed(r, ok, avg) ==
    [SetAll(r, << <<"extra.loadavg.1", FloatVal(IF ok THEN avg.Load1 ELSE 0)>>,
                  <<"extra.loadavg.5", FloatVal(IF ok THEN avg.Load5 ELSE 0)>>,
                  <<"extra.loadavg.15", FloatVal(IF ok THEN avg.Load15 ELSE 0)>> >>)
     EXCEPT !.loadErr = IF ok THEN "nil" ELSE "error"]

\* loadAvg, err := load.Avg(); if err == nil { ... }
setLoadavgPlaceholders(r, ok, avg) ==
    IF ok
    THEN [SetAll(r, << <<"extra.loadavg.1", FloatVal(avg.Load1)>>,
                       <<"extra.loadavg.5", FloatVal(avg.Load5)>>,
                       <<"extra.loadavg.15", FloatVal(avg.Load15)>> >>)
          EXCEPT !.loadErr = "nil"]
    ELSE [r EXCEPT !.loadErr = "error"]

\* the method e.setLoadavgPlaceholders(repl): with the option set it does
\* nothing, without it it makes the lookup and writes the three keys
setLoadavgPlaceholdersUnlessDisabled(r, ok, avg) ==
    IF LoadavgDisabled(r.recv) THEN r ELSE setLoadavgPlaceholders(r, ok, avg)

\* e.setLoadavgPlaceholders(repl); ok: whether load.Avg() returns no error
SetLoadavgPlaceholders(i) ==
    /\ req[i].pc = "loadavg"
    /\ \E ok \in BOOLEAN, avg \in LoadSamples :
          Update(i, [setLoadavgPlaceholdersUnlessDisabled(req[i], ok, avg)
                     EXCEPT !.pc = "hostinfo"])

\* a variant of setHostinfoPlaceholders that writes nothing when
\* host.Uptime() fails; C8 tells the two apart
setHostinfoPlaceholdersSilent(r, ok, uptime) ==
    IF ok
    THEN [SetKey(r, "extra.hostinfo.uptime", StrVal(DurationString(uptime)))
          EXCEPT !.uptimeErr = "nil"]
    ELSE [r EXCEPT !.uptimeErr = "error"]

\* uptime, err := host.Uptime(); if err == nil { ... } else { ... }
setHostinfoPlaceholders(r, ok, uptime) ==
    IF ok
    THEN [SetKey(r, "extra.hostinfo.uptime", StrVal(DurationString(uptime)))
          EXCEPT !.uptimeErr = "nil"]
    ELSE [SetKey(r, "extra.hostinfo.uptime", StrVal("error retrieving uptime"))
          EXCEPT !.uptimeErr = "error"]

\* ok: whether host.Uptime() returned no error
SetHostinfoPlaceholders(i) ==
    /\ req[i].pc = "hostinfo"
    /\ \E ok \in BOOLEAN, uptime \in Uptimes :
          Update(i, [setHostinfoPlaceholders(req[i], ok, uptime) EXCEPT !.pc = "timeLocal"])

\* a variant of TimeBase that forgets the ".utc" part; C14 tells the two apart
TimeBaseShared(isUTC) == "extra.time.now"

\* the base path of the time placeholders, with or without ".utc"
TimeBase(isUTC) == IF isUTC THEN "extra.time.now" \o ".utc" ELSE "extra.time.now"

\* a variant of TimeFields whose second and second_padded come from a
\* reading one second after t; C27 tells the two apart
TimeFieldsLateSecond(t, layout) ==
    LET late == [t EXCEPT !.unix = @ + 1]
    IN  << <<"month", IntVal(I64(Month(t)))>>,
           <<"month_padded", StrVal(Sprintf02d(Month(t)))>>,
           <<"day", IntVal(I64(Day(t)))>>,
           <<"day_padded", StrVal(Sprintf02d(Day(t)))>>,
           <<"hour", IntVal(I64(Hour(t)))>>,
           <<"hour_padded", StrVal(Sprintf02d(Hour(t)))>>,
           <<"minute", IntVal(I64(Minute(t)))>>,
           <<"minute_padded", StrVal(Sprintf02d(Minute(t)))>>,
           <<"second", IntVal(I64(Second(late)))>>,
           <<"second_padded", StrVal(Sprintf02d(Second(late)))>>,
           <<"timezone_offset", StrVal(Format(t, "-0700"))>>,
           <<"timezone_name", StrVal(Format(t, "MST"))>>,
           <<"iso_week", IntVal(I64(ISOWeek(t)))>>,
           <<"iso_year", IntVal(I64(ISOYear(t)))>>,
           <<"custom", StrVal(Format(t, layout))>> >>

\* the fields setTimePlaceholders writes, in its order: name and value
TimeFields(t, layout) ==
    << <<"month", IntVal(I64(Month(t)))>>,
       <<"month_padded", StrVal(Sprintf02d(Month(t)))>>,
       <<"day", IntVal(I64(Day(t)))>>,
       <<"day_padded", StrVal(Sprintf02d(Day(t)))>>,
       <<"hour", IntVal(I64(Hour(t)))>>,
       <<"hour_padded", StrVal(Sprintf02d(Hour(t)))>>,
       <<"minute", IntVal(I64(Minute(t)))>>,
       <<"minute_padded", StrVal(Sprintf02d(Minute(t)))>>,
       <<"second", IntVal(I64(Second(t)))>>,
       <<"second_padded", StrVal(Sprintf02d(Second(t)))>>,
       <<"timezone_offset", StrVal(Format(t, "-0700"))>>,
       <<"timezone_name", StrVal(Format(t, "MST"))>>,
       <<"iso_week", IntVal(I64(ISOWeek(t)))>>,
       <<"iso_year", IntVal(I64(ISOYear(t)))>>,
       <<"custom", StrVal(Format(t, layout))>> >>

\* a variant of setTimePlaceholders that renders the UTC custom field with
\* the default pattern; C16 tells the two apart
setTimePlaceholdersDefaultUTC(r, t, isUTC) ==
    LET fields == TimeFields(t, IF isUTC THEN defaultTimeFormatCustom
                                ELSE r.recv.TimeFormatCustom)
    IN  SetAll(r, [k \in 1..Len(fields) |->
                     <<TimeBase(isUTC) \o "." \o fields[k][1], fields[k][2]>>])

setTimePlaceholders(r, t, isUTC) ==
    LET fields == TimeFields(t, r.recv.TimeFormatCustom)
    IN  SetAll(r, [k \in 1..Len(fields) |->
                     <<TimeBase(isUTC) \o "." \o fields[k][1], fields[k][2]>>])

\* time.Now(): the clock's instant in the server's local zone
Now == [unix |-> clock, loc |-> zone]

\* e.setTimePlaceholders(repl, time.Now(), false)
SetTimeLocal(i) ==
    /\ req[i].pc = "timeLocal"
    /\ Update(i, [setTimePlaceholders(req[i], Now, FALSE)
                  EXCEPT !.pc = "timeUTC", !.tLocal = Now])

\* e.setTimePlaceholders(repl, time.Now().UTC(), true)
SetTimeUTC(i) ==
    /\ req[i].pc = "timeUTC"
    /\ Update(i, [setTimePlaceholders(req[i], InUTC(Now), TRUE)
                  EXCEPT !.pc = "next", !.tUTC = InUTC(Now)])

\* what the next handler may return: nil or an error of its own
NextResults == {"nil", "error"}

\* return next.ServeHTTP(w, r)
CallNext(i) ==
    /\ req[i].pc = "next"
    /\ \E res \in NextResults :
          Update(i, [req[i] EXCEPT !.pc = "done", !.nextCalls = @ + 1,
                                   !.nextAt = Len(req[i].writes), !.nextRet = res,
                                   !.ret = res])

\* the request is over (returned, or unwound by a panic): its replacer is dropped
Release(i) ==
    /\ req[i].pc \in {"done", "panic"}
    /\ Update(i, IdleRequest)

\* the wall clock advances by a second
Tick ==
    /\ Serving
    /\ \E c \in HandlerClockStarts : clock - c \in 0..(MaxTicks - 1)
    /\ clock' = clock + 1
    /\ UNCHANGED <<e, phase, lastErr, zone, config, req>>

ServeHTTP(i) ==
    \/ CallServeHTTP(i)
    \/ GetReplacer(i)
    \/ SetCaddyPlaceholders(i)
    \/ SetRandPlaceholders(i)
    \/ SetLoadavgPlaceholders(i)
    \/ SetHostinfoPlaceholders(i)
    \/ SetTimeLocal(i)
    \/ SetTimeUTC(i)
    \/ CallNext(i)
    \/ Release(i)

(***************************************************************************)
(* Spec: the module in the host server. The host parses the block,         *)
(* provisions and validates the instance, and serves requests only with    *)
(* an instance that passed Validate. Requests are served one after the     *)
(* other here, each interleaved with the clock; SpecConcurrent interleaves *)
(* the steps of several requests.                                          *)
(***************************************************************************)
Init ==
    /\ e = ZeroInstance
    /\ phase = "new"
    /\ lastErr = ""
    /\ clock \in ClockStarts
    /\ zone \in Zones
    /\ config = NoConfig
    /\ req = [i \in Requests |-> IdleRequest]

Next ==
    \/ UnmarshalCaddyfile
    \/ Provision
    \/ Validate
    \/ Tick
    \/ ServeHTTP(1)

Spec == Init /\ [][Next]_vars

(***************************************************************************)
(* SpecConcurrent: an activated instance serving several requests at       *)
(* once, their steps interleaved in every order.                           *)
(***************************************************************************)
ActiveInstances ==
    { inst \in { Provisioned(ZeroInstance),
                 Provisioned([ZeroInstance EXCEPT !.RandIntMin = I64(10),
                                                  !.RandIntMax = I64(50),
                                                  !.DisableLoadavgPlaceholders = TRUE]),
                 Provisioned([ZeroInstance EXCEPT !.RandIntMax = IntMax]) } :
        ValidateErr(inst) = "" }

InitConcurrent ==
    /\ e \in ActiveInstances
    /\ phase = "active"
    /\ lastErr = ""
    /\ clock \in ClockStarts
    /\ zone = [name |-> "CET", offset |-> 3600]
    /\ config = [inst |-> e, given |-> {}, block |-> <<>>]
    /\ req = [i \in Requests |-> IdleRequest]

NextConcurrent == \E i \in Requests : ServeHTTP(i)

SpecConcurrent == InitConcurrent /\ [][NextConcurrent]_vars

(***************************************************************************)
(* SpecHandler: ServeHTTP called on an instance as it is, whatever its     *)
(* fields hold (the method is exported and checks nothing itself).         *)
(***************************************************************************)
DirectInstances ==
    { ZeroInstance,
      [ZeroInstance EXCEPT !.RandIntMin = I64(5), !.RandIntMax = I64(5),
                           !.TimeFormatCustom = defaultTimeFormatCustom],
      [ZeroInstance EXCEPT !.RandIntMin = I64(50), !.RandIntMax = I64(10)],
      [ZeroInstance EXCEPT !.RandIntMin = I64(10), !.RandIntMax = I64(50),
                           !.TimeFormatCustom = defaultTimeFormatCustom] }

InitHandler ==
    /\ e \in DirectInstances
    /\ phase = "direct"
    /\ lastErr = ""
    /\ clock \in HandlerClockStarts
    /\ zone \in Zones
    /\ config = NoConfig
    /\ req = [i \in Requests |-> IdleRequest]

NextHandler ==
    \/ Tick
    \/ ServeHTTP(1)

SpecHandler == InitHandler /\ [][NextHandler]_vars

(***************************************************************************)
(* SpecSuccessive: an activated instance serving requests one after the    *)
(* other while the clock advances. Slot 1 is the request in flight; slot 2 *)
(* keeps the record of a request served before it: its receiver, whether   *)
(* it had a replacer, how it ended, the outcomes of its two lookups, the   *)
(* keys it wrote and the local time value it used. Its replacer is gone.   *)
(***************************************************************************)
Record(r) ==
    [IdleRequest EXCEPT !.pc = r.pc, !.hasRepl = r.hasRepl, !.recv = r.recv,
                        !.writes = r.writes, !.loadErr = r.loadErr,
                        !.uptimeErr = r.uptimeErr, !.tLocal = r.tLocal,
                        !.ret = r.ret]

\* the request is over, as in Release, and its record is kept
ReleaseRecorded ==
    /\ req[1].pc \in {"done", "panic"}
    /\ req' = [req EXCEPT ![1] = IdleRequest, ![2] = Record(req[1])]
    /\ UNCHANGED <<e, phase, lastErr, clock, zone, config>>

InitSuccessive == InitConcurrent

NextSuccessive ==
    \/ Tick
    \/ ServeHTTP(1)
    \/ ReleaseRecorded

SpecSuccessive == InitSuccessive /\ [][NextSuccessive]_vars

(***************************************************************************)
(* The properties checked. r ranges over the request slots.                *)
(***************************************************************************)
KeysWritten(r) == {r.writes[n] : n \in 1..Len(r.writes)}

Wrote(r, k) == k \in KeysWritten(r)

\* the steps after setRandPlaceholders, and the unwinding of its panic
PastRand(r) == r.pc \in {"loadavg", "hostinfo", "timeLocal", "timeUTC", "next", "done", "panic"}

CaddyKeys == {"extra.caddy.version.simple", "extra.caddy.version.full"}

RandKeys == {"extra.rand.float", "extra.rand.int"}

LoadavgKeys == {"extra.loadavg.1", "extra.loadavg.5", "extra.loadavg.15"}

UptimeKey == "extra.hostinfo.uptime"

TimeFieldNames ==
    { "month", "month_padded", "day", "day_padded", "hour", "hour_padded", "minute",
      "minute_padded", "second", "second_padded", "timezone_offset", "timezone_name",
      "iso_week", "iso_year", "custom" }

LocalTimeKeys == {"extra.time.now." \o f : f \in TimeFieldNames}

UTCTimeKeys == {"extra.time.now.utc." \o f : f \in TimeFieldNames}

\* C1: every request served by an instance configured with RandIntMax >
\* RandIntMin sets extra.rand.int, once setRandPlaceholders has run, to an
\* integer v with RandIntMin <= v <= RandIntMax.
C1_RandIntWithinConfiguredRange ==
    \A i \in Requests :
        LET r == req[i]
        IN  (r.hasRepl /\ RangeConfigured(r.recv) /\ PastRand(r)) =>
                /\ Wrote(r, "extra.rand.int")
                /\ r.repl["extra.rand.int"].kind = "int"
                /\ IntLeq(r.recv.RandIntMin, r.repl["extra.rand.int"].int)
                /\ IntLeq(r.repl["extra.rand.int"].int, r.recv.RandIntMax)

\* C2: in a request, the local-time placeholders and the UTC placeholders
\* come from one clock reading: the time value of the UTC set is the time
\* value of the local set moved to UTC, and the two second fields agree.
C2_OneClockReading ==
    \A i \in Requests :
        LET r == req[i]
        IN  (r.hasRepl /\ r.pc \in {"next", "done"}) =>
                /\ r.tUTC = InUTC(r.tLocal)
                /\ r.repl["extra.time.now.utc.second"] = r.repl["extra.time.now.second"]

\* C3: for every configuration whose rand_int range has max <= min, the
\* startup sequence Provision, Validate ends with a validation error: the
\* instance is never activated and no request is served with it.
C3_BadRangeNeverActivated ==
    ("rand_int" \in config.given /\ IntLeq(config.inst.RandIntMax, config.inst.RandIntMin)) =>
        /\ phase # "active"
        /\ (phase = "invalid" => lastErr # "")
        /\ \A i \in Requests : req[i].pc = "idle"

\* the keys a request that ran to its end has written
ExpectedKeys(r) ==
    CaddyKeys \cup RandKeys \cup (IF r.loadErr = "nil" THEN LoadavgKeys ELSE {})
        \cup {UptimeKey} \cup LocalTimeKeys \cup UTCTimeKeys

\* C4: ServeHTTP on an instance whose RandIntMax <= RandIntMin does not fail
\* the request: it sets extra.rand.int to an integer in [0,100], writes the
\* remaining placeholders, calls the next handler and returns its result.
C4_FallbackRange ==
    \A i \in Requests :
        LET r == req[i]
        IN  (r.hasRepl /\ ~RangeConfigured(r.recv)) =>
                /\ r.pc # "panic"
                /\ r.ret # "500"
                /\ PastRand(r) =>
                      /\ Wrote(r, "extra.rand.int")
                      /\ r.repl["extra.rand.int"].kind = "int"
                      /\ IntLeq(IntZero, r.repl["extra.rand.int"].int)
                      /\ IntLeq(r.repl["extra.rand.int"].int, I64(100))
                /\ r.pc = "done" =>
                      /\ KeysWritten(r) = ExpectedKeys(r)
                      /\ r.nextCalls = 1
                      /\ r.ret = r.nextRet

\* a request on an instance with max < min that drew 100 and ran to its end
C4_Witness ==
    \E i \in Requests :
        LET r == req[i]
        IN  /\ r.hasRepl
            /\ IntLess(r.recv.RandIntMax, r.recv.RandIntMin)
            /\ r.pc = "done"
            /\ r.repl["extra.rand.int"] = IntVal(I64(100))
            /\ r.nextCalls = 1

\* C5: after Provision of a configuration that gave neither rand_int nor
\* time_format_custom, the instance holds RandIntMin = 0, RandIntMax = 100
\* and TimeFormatCustom = "2006-01-02 15:04:05", and Validate accepts it.
C5_DefaultsAfterProvision ==
    (/\ config.given \cap {"rand_int", "time_format_custom"} = {}
     /\ phase \in {"provisioned", "active", "invalid"}) =>
        /\ e.RandIntMin = I64(0)
        /\ e.RandIntMax = I64(100)
        /\ e.TimeFormatCustom = "2006-01-02 15:04:05"
        /\ ValidateErr(e) = ""
        /\ phase # "invalid"

\* a block without rand_int and time_format_custom went through Provision
\* and Validate
C5_Witness ==
    /\ config.given \cap {"rand_int", "time_format_custom"} = {}
    /\ phase = "active"
    /\ lastErr = ""
    /\ e.RandIntMax = I64(100)

\* C6: when load.Avg() fails no extra.loadavg key is written, when
\* host.Uptime() fails extra.hostinfo.uptime is "error retrieving uptime";
\* with both failed the request still writes the version, random, local
\* time and UTC time keys and calls the next handler.
C6_MetricFailuresNotFatal ==
    \A i \in Requests :
        LET r == req[i]
        IN  /\ r.loadErr = "error" => KeysWritten(r) \cap LoadavgKeys = {}
            /\ r.uptimeErr = "error" =>
                  /\ Wrote(r, UptimeKey)
                  /\ r.repl[UptimeKey] = StrVal("error retrieving uptime")
            /\ (r.loadErr = "error" /\ r.uptimeErr = "error") =>
                  /\ r.pc \in {"timeLocal", "timeUTC", "next", "done"}
                  /\ r.pc = "done" =>
                        /\ KeysWritten(r) = CaddyKeys \cup RandKeys \cup {UptimeKey}
                                                \cup LocalTimeKeys \cup UTCTimeKeys
                        /\ r.nextCalls = 1
                        /\ r.ret = r.nextRet

\* a request whose two lookups failed ran to its end
C6_Witness ==
    \E i \in Requests :
        LET r == req[i]
        IN  /\ r.loadErr = "error"
            /\ r.uptimeErr = "error"
            /\ r.pc = "done"
            /\ r.nextCalls = 1
            /\ ~Wrote(r, "extra.loadavg.1")

\* what holds of a request whose context carries no replacer
NoReplacerOutcome(r) ==
    /\ r.pc \in {"start", "done"}
    /\ r.writes = <<>>
    /\ r.repl = EmptyStore
    /\ r.nextCalls = 0
    /\ r.pc = "done" => r.ret = "500"

\* C7: a request without a replacer ends with the HTTP 500 error, writes no
\* placeholder and never reaches the next handler; its steps leave every
\* other request as it is, and another request served meanwhile still
\* ends complete.
C7_NoReplacer ==
    /\ [](\A i \in Requests :
            (req[i].pc # "idle" /\ ~req[i].hasRepl) =>
                /\ NoReplacerOutcome(req[i])
                /\ \A j \in Requests \ {i} :
                      (req[j].hasRepl /\ req[j].pc = "done") =>
                          /\ KeysWritten(req[j]) = ExpectedKeys(req[j])
                          /\ req[j].nextCalls = 1
                          /\ req[j].ret = req[j].nextRet)
    /\ [][\A i \in Requests :
            (req[i].pc = "start" /\ ~req[i].hasRepl /\ req'[i] # req[i]) =>
                /\ req'[i] = [req[i] EXCEPT !.pc = "done", !.ret = "500"]
                /\ \A j \in Requests \ {i} : req'[j] = req[j]]_vars

\* a request without a replacer got its 500 while another one, started
\* before it ended, ran to its end
C7_Witness ==
    \E i, j \in Requests :
        /\ i # j
        /\ ~req[i].hasRepl /\ req[i].pc = "done" /\ req[i].ret = "500"
        /\ req[i].nextCalls = 0
        /\ req[j].hasRepl /\ req[j].pc = "done" /\ req[j].nextCalls = 1
        /\ KeysWritten(req[j]) = ExpectedKeys(req[j])

\* the request is over: ServeHTTP returned or was unwound by a panic
Ended(r) == r.pc \in {"done", "panic"}

\* C8 as stated: two requests with a replacer served to their end under the
\* same configuration have written the same set of keys, whatever the
\* clock, the draws and the outcomes of the two lookups were.
C8_KeySetFunctionOfConfig ==
    \A i, j \in Requests :
        (/\ req[i].hasRepl /\ Ended(req[i])
         /\ req[j].hasRepl /\ Ended(req[j])
         /\ req[i].recv = req[j].recv) =>
            KeysWritten(req[i]) = KeysWritten(req[j])

\* C8 amended: two requests served to their end under the same
\* configuration, both with a replacer, in which load.Avg() had the same
\* outcome (nil in both, an error in both, or not called in either), have
\* written the same set of keys, whatever the clock, the draws and the
\* outcome of host.Uptime() were; a request without a replacer has written
\* no key, and one in which load.Avg() failed none of the three
\* extra.loadavg keys.
C8_KeySetGivenLoadavgOutcome ==
    /\ \A i, j \in Requests :
          (/\ Ended(req[i]) /\ Ended(req[j])
           /\ req[i].recv = req[j].recv
           /\ req[i].hasRepl /\ req[j].hasRepl
           /\ req[i].loadErr = req[j].loadErr) =>
              KeysWritten(req[i]) = KeysWritten(req[j])
    /\ \A i \in Requests :
          Ended(req[i]) =>
              /\ ~req[i].hasRepl => KeysWritten(req[i]) = {}
              /\ req[i].loadErr = "error" => KeysWritten(req[i]) \cap LoadavgKeys = {}
              /\ req[i].loadErr = "nil" => LoadavgKeys \subseteq KeysWritten(req[i])

\* two requests under one configuration, served at different times, with
\* different outcomes of host.Uptime(); load.Avg() failed in both and both
\* wrote the same 35 keys
C8_Witness ==
    /\ req[1].hasRepl /\ req[1].pc = "done"
    /\ req[2].hasRepl /\ req[2].pc = "done"
    /\ req[1].recv = req[2].recv
    /\ req[1].loadErr = "error" /\ req[2].loadErr = "error"
    /\ req[1].uptimeErr # req[2].uptimeErr
    /\ req[1].tLocal.unix > req[2].tLocal.unix
    /\ KeysWritten(req[1]) = KeysWritten(req[2])
    /\ Cardinality(KeysWritten(req[1])) = 35

\* C9: ServeHTTP never modifies the instance: through every interleaving
\* of the requests' steps the instance stays the one activated, every
\* request in flight holds that same configuration from its first step to
\* its last, and a step of one request changes no other request's replacer
\* or locals.
C9_ConfigNeverModified ==
    /\ [](/\ e = config.inst
          /\ \A i \in Requests : req[i].pc # "idle" => req[i].recv = e)
    /\ [][/\ e' = e
          /\ \A i \in Requests :
                (req[i].pc # "idle" /\ req'[i].pc # "idle") => req'[i].recv = req[i].recv
          /\ \A i, j \in Requests :
                (i # j /\ req'[i] # req[i]) => req'[j] = req[j]]_vars

\* two requests in flight at once under the activated instance, their
\* replacers holding different values
C9_Witness ==
    \E i, j \in Requests :
        /\ i # j
        /\ req[i].hasRepl /\ req[i].pc = "next"
        /\ req[j].hasRepl /\ req[j].pc = "loadavg"
        /\ req[i].recv = e /\ req[j].recv = e
        /\ req[i].repl["extra.rand.int"] # req[j].repl["extra.rand.int"]
        /\ Wrote(req[i], "extra.rand.int") /\ Wrote(req[j], "extra.rand.int")

\* C10: with a replacer present, ServeHTTP calls the next handler exactly
\* once, after every placeholder write of the request, and returns what
\* the next handler returned.
C10_NextCalledOnceAfterAllWrites ==
    \A i \in Requests :
        LET r == req[i]
        IN  r.hasRepl =>
                /\ r.nextCalls <= 1
                /\ r.nextCalls = 1 =>
                      /\ r.nextAt = Len(r.writes)
                      /\ KeysWritten(r) = ExpectedKeys(r)
                      /\ r.ret = r.nextRet
                /\ Ended(r) => r.nextCalls = 1

\* the steps after the local time set, and after the UTC time set
PastTimeLocal(r) == r.hasRepl /\ r.pc \in {"timeUTC", "next", "done"}

PastTimeUTC(r) == r.hasRepl /\ r.pc \in {"next", "done"}

\* the prefixes whose time set request r has written
TimePrefixes(r) ==
    (IF PastTimeLocal(r) THEN {"extra.time.now"} ELSE {})
        \cup (IF PastTimeUTC(r) THEN {"extra.time.now.utc"} ELSE {})

PaddedFields == {"month", "day", "hour", "minute", "second"}

\* C11: under both prefixes and for each field f of month, day, hour,
\* minute, second, f_padded is a string of exactly two characters, both
\* decimal digits, whose value is the integer f holds (a leading zero when
\* f < 10).
C11_PaddedFields ==
    \A i \in Requests : \A base \in TimePrefixes(req[i]) : \A f \in PaddedFields :
        LET v == req[i].repl[base \o "." \o f]
            p == req[i].repl[base \o "." \o f \o "_padded"]
        IN  /\ v.kind = "int"
            /\ p.kind = "string"
            /\ Len(p.str) = 2
            /\ IsDigit(SubSeq(p.str, 1, 1)) /\ IsDigit(SubSeq(p.str, 2, 2))
            /\ Atoi(p.str) = [ok |-> TRUE, v |-> v.int]
            /\ IntLess(v.int, I64(10)) => SubSeq(p.str, 1, 1) = "0"

\* a request just after midnight of 1 January, local time: month, day and
\* hour below ten next to a two-digit minute
C11_Witness ==
    \E i \in Requests :
        LET r == req[i]
        IN  /\ PastTimeUTC(r)
            /\ r.repl["extra.time.now.hour"] = IntVal(I64(0))
            /\ r.repl["extra.time.now.hour_padded"] = StrVal("00")
            /\ r.repl["extra.time.now.month_padded"] = StrVal("01")
            /\ r.repl["extra.time.now.minute_padded"] = StrVal("59")
            /\ r.repl["extra.time.now.utc.hour_padded"] = StrVal("23")

\* C12: in every request that has written its UTC time set,
\* extra.time.now.utc.timezone_offset is "+0000" and
\* extra.time.now.utc.timezone_name is "UTC", in every local zone.
C12_UTCZone ==
    \A i \in Requests :
        PastTimeUTC(req[i]) =>
            /\ req[i].repl["extra.time.now.utc.timezone_offset"] = StrVal("+0000")
            /\ req[i].repl["extra.time.now.utc.timezone_name"] = StrVal("UTC")

\* a request served in the zone EST: local offset -0500, UTC offset +0000
C12_Witness ==
    \E i \in Requests :
        /\ PastTimeUTC(req[i])
        /\ zone.name = "EST"
        /\ req[i].repl["extra.time.now.timezone_offset"] = StrVal("-0500")
        /\ req[i].repl["extra.time.now.timezone_name"] = StrVal("EST")
        /\ req[i].repl["extra.time.now.utc.timezone_offset"] = StrVal("+0000")

\* the integer a replacer holds under key k
IntAt(r, k) == Small(r.repl[k].int)

\* C13: in every request the local time of day is the UTC time of day plus
\* the local offset, modulo 24 hours; the second fields are equal; the day
\* fields are equal or one day apart in the direction of the offset (day 1
\* following the last day of a month).
C13_LocalUTCOffset ==
    \A i \in Requests :
        LET r   == req[i]
            off == zone.offset \div 60
            lm  == IntAt(r, "extra.time.now.hour") * 60 + IntAt(r, "extra.time.now.minute")
            um  == IntAt(r, "extra.time.now.utc.hour") * 60
                       + IntAt(r, "extra.time.now.utc.minute")
            ld  == IntAt(r, "extra.time.now.day")
            ud  == IntAt(r, "extra.time.now.utc.day")
        IN  PastTimeUTC(r) =>
                /\ (lm - um - off) % 1440 = 0
                /\ IntAt(r, "extra.time.now.second") = IntAt(r, "extra.time.now.utc.second")
                /\ off = 0 => ld = ud
                /\ off > 0 => (ld = ud \/ ld = ud + 1 \/ (ld = 1 /\ ud >= 28))
                /\ off < 0 => (ld = ud \/ ld = ud - 1 \/ (ud = 1 /\ ld >= 28))

\* the keys of the last n writes of request r
LastWrites(r, n) == {r.writes[k] : k \in (Len(r.writes) - n + 1)..Len(r.writes)}

\* the writes of request r under the time prefix, by position
TimeWritePositions(r) ==
    {k \in 1..Len(r.writes) : HasPrefix(r.writes[k], "extra.time.now.")}

\* C14: each call of the time provider writes exactly the 15 keys of its
\* prefix, once each; the UTC keys are the local keys with "extra.time.now"
\* replaced by "extra.time.now.utc"; the two sets are disjoint, and after
\* the UTC writes the local keys still hold the values of the local time.
C14_FifteenKeysPerPrefix ==
    /\ Cardinality(TimeFieldNames) = 15
    /\ LocalTimeKeys \cap UTCTimeKeys = {}
    /\ \A i \in Requests :
          LET r == req[i]
          IN  /\ (r.hasRepl /\ r.pc = "timeUTC") =>
                    /\ LastWrites(r, 15) = LocalTimeKeys
                    /\ Cardinality(TimeWritePositions(r)) = 15
              /\ PastTimeUTC(r) =>
                    /\ LastWrites(r, 15) = UTCTimeKeys
                    /\ LastWrites(r, 30) \ LastWrites(r, 15) = LocalTimeKeys
                    /\ Cardinality(TimeWritePositions(r)) = 30
                    /\ r.repl["extra.time.now.second"]
                           = IntVal(I64(Second(r.tLocal)))
                    /\ r.repl["extra.time.now.timezone_name"]
                           = StrVal(r.tLocal.loc.name)
                    /\ r.repl["extra.time.now.hour"] = IntVal(I64(Hour(r.tLocal)))

\* a request in the zone CET wrote both sets, the clock having moved in
\* between: the local keys keep the local values
C14_Witness ==
    \E i \in Requests :
        LET r == req[i]
        IN  /\ PastTimeUTC(r)
            /\ r.pc = "done"
            /\ LastWrites(r, 15) = UTCTimeKeys
            /\ r.repl["extra.time.now.timezone_name"] = StrVal("CET")
            /\ r.repl["extra.time.now.utc.timezone_name"] = StrVal("UTC")
            /\ r.repl["extra.time.now.second"] # r.repl["extra.time.now.utc.second"]

\* the day number of the Monday of the week that holds 4 January of year
\* y: the first day of ISO week 1 of y
FirstISOMonday(y) ==
    LET jan4 == DaysBeforeYear(y) + 3
    IN  jan4 - ((jan4 + 3) % 7)

\* the time value request r handed to setTimePlaceholders under a prefix
TimeOf(r, base) == IF base = "extra.time.now" THEN r.tLocal ELSE r.tUTC

\* C15: iso_week and iso_year follow ISO 8601: the day of the time value
\* lies in week iso_week of the weeks (Monday to Sunday) counted from the
\* one that holds 4 January of iso_year; iso_week is in 1..53, iso_year is
\* the calendar year or next to it, and 31 December 2024 gives week 1 of
\* 2025.
C15_ISOWeek ==
    \A i \in Requests : \A base \in TimePrefixes(req[i]) :
        LET r  == req[i]
            t  == TimeOf(r, base)
            w  == IntAt(r, base \o ".iso_week")
            y  == IntAt(r, base \o ".iso_year")
            d0 == FirstISOMonday(y) + 7 * (w - 1)
        IN  /\ r.repl[base \o ".iso_week"].kind = "int"
            /\ r.repl[base \o ".iso_year"].kind = "int"
            /\ w \in 1..53
            /\ y - Year(t) \in {-1, 0, 1}
            /\ DayNumber(t) \in d0..(d0 + 6)
            /\ DayNumber(t) < FirstISOMonday(y + 1)
            /\ (Year(t) = 2024 /\ Month(t) = 12 /\ Day(t) = 31) => (w = 1 /\ y = 2025)

\* a request served on Tuesday 31 December 2024, local time
C15_Witness ==
    \E i \in Requests :
        LET r == req[i]
        IN  /\ PastTimeUTC(r)
            /\ IntAt(r, "extra.time.now.month") = 12
            /\ IntAt(r, "extra.time.now.day") = 31
            /\ Year(r.tLocal) = 2024
            /\ Weekday(r.tLocal) = 2
            /\ r.repl["extra.time.now.iso_week"] = IntVal(I64(1))
            /\ r.repl["extra.time.now.iso_year"] = IntVal(I64(2025))

\* the string a replacer holds under key k
StrAt(r, k) == r.repl[k].str

\* the four digits of the calendar year of the time value under a prefix
YearDigits(r, base) == NatString(Year(TimeOf(r, base)))

\* C16: under both prefixes the custom placeholder is the rendering of the
\* prefix's own time value through the one configured pattern: with the
\* default pattern it reads YYYY-MM-DD HH:MM:SS, with the pattern
\* "02.01.2006 15:04:05" it reads DD.MM.YYYY HH:MM:SS, and the instant
\* 2024-12-31 23:59:58 UTC renders as that literal.
C16_CustomFormat ==
    \A i \in Requests : \A base \in TimePrefixes(req[i]) :
        LET r      == req[i]
            t      == TimeOf(r, base)
            custom == r.repl[base \o ".custom"]
            P(f)   == StrAt(r, base \o "." \o f \o "_padded")
            clock6 == P("hour") \o ":" \o P("minute") \o ":" \o P("second")
        IN  /\ custom = StrVal(Format(t, r.recv.TimeFormatCustom))
            /\ r.recv.TimeFormatCustom = "2006-01-02 15:04:05" =>
                  custom.str = YearDigits(r, base) \o "-" \o P("month") \o "-"
                                   \o P("day") \o " " \o clock6
            /\ r.recv.TimeFormatCustom = "02.01.2006 15:04:05" =>
                  custom.str = P("day") \o "." \o P("month") \o "."
                                   \o YearDigits(r, base) \o " " \o clock6
            /\ (r.recv.TimeFormatCustom = "2006-01-02 15:04:05"
                    /\ t = [unix |-> 1735689598, loc |-> UTCLoc]) =>
                  custom.str = "2024-12-31 23:59:58"

\* a request in the zone CET with the pattern "02.01.2006 15:04:05": the
\* local rendering is past midnight of the new year, the UTC one before it
C16_Witness ==
    \E i \in Requests :
        LET r == req[i]
        IN  /\ PastTimeUTC(r)
            /\ r.recv.TimeFormatCustom = "02.01.2006 15:04:05"
            /\ r.repl["extra.time.now.custom"] = StrVal("01.01.2025 00:59:58")
            /\ r.repl["extra.time.now.utc.custom"] = StrVal("31.12.2024 23:59:58")

\* C17: when the block named disable_loadavg_placeholders, no request
\* writes extra.loadavg.1, extra.loadavg.5 or extra.loadavg.15, whether the
\* lookup would succeed or fail, and a request that returns has written
\* every other key.
C17_LoadavgDisabled ==
    "disable_loadavg_placeholders" \in config.given =>
        \A i \in Requests :
            LET r == req[i]
            IN  r.hasRepl =>
                    /\ KeysWritten(r) \cap LoadavgKeys = {}
                    /\ r.loadErr = ""
                    /\ r.pc = "done" =>
                          /\ KeysWritten(r) = CaddyKeys \cup RandKeys \cup {UptimeKey}
                                                  \cup LocalTimeKeys \cup UTCTimeKeys
                          /\ r.nextCalls = 1

\* a request served with the option set ran to its end, the uptime lookup
\* having succeeded
C17_Witness ==
    /\ "disable_loadavg_placeholders" \in config.given
    /\ e.DisableLoadavgPlaceholders
    /\ \E i \in Requests :
          LET r == req[i]
          IN  /\ r.hasRepl /\ r.pc = "done"
              /\ r.uptimeErr = "nil"
              /\ ~Wrote(r, "extra.loadavg.1")
              /\ Wrote(r, "extra.time.now.utc.custom")

\* C18: every request sets weekday_int under both prefixes to the day of
\* the week of the prefix's time value, an integer in 0..6 with Sunday = 0.
C18_WeekdayInt ==
    \A i \in Requests : \A base \in TimePrefixes(req[i]) :
        LET r == req[i]
            k == base \o ".weekday_int"
        IN  /\ Wrote(r, k)
            /\ r.repl[k].kind = "int"
            /\ IntAt(r, k) \in 0..6
            /\ IntAt(r, k) = Weekday(TimeOf(r, base))

\* the position of the first "}" of s from position n on, 0 if there is none
RECURSIVE ClosingBrace(_, _)
ClosingBrace(s, n) ==
    IF n > Len(s) THEN 0
    ELSE IF SubSeq(s, n, n) = "}" THEN n
    ELSE ClosingBrace(s, n + 1)

\* s with every {key} replaced by what the replacer holds under key, and by
\* nothing when it holds no such key
RECURSIVE ReplaceAll(_, _)
ReplaceAll(store, s) ==
    IF Len(s) = 0 THEN ""
    ELSE IF Head(s) = "{" /\ ClosingBrace(s, 2) > 0
    THEN LET n   == ClosingBrace(s, 2)
             key == SubSeq(s, 2, n - 1)
         IN  (IF key \in DOMAIN store THEN store[key].str ELSE "")
                 \o ReplaceAll(store, Drop(s, n))
    ELSE Head(s) \o ReplaceAll(store, Tail(s))

\* C19: the custom time placeholders of a request are the rendering of the
\* time value through time_format_custom with its placeholders resolved
\* against that request's own replacer; the configured value stays what
\* the block gave and every request in flight holds it unresolved.
C19_PatternResolvedPerRequest ==
    \A i \in Requests :
        LET r == req[i]
        IN  /\ r.pc # "idle" =>
                  /\ r.recv.TimeFormatCustom = e.TimeFormatCustom
                  /\ e = Provisioned(config.inst)
            /\ \A base \in TimePrefixes(r) :
                  r.repl[base \o ".custom"] =
                      StrVal(Format(TimeOf(r, base),
                                    ReplaceAll(r.repl, r.recv.TimeFormatCustom)))

\* C20: for every instance a request is served with whose RandIntMax >
\* RandIntMin, the range size RandIntMax - RandIntMin + 1 in the width of
\* int is strictly positive, rand.Intn is not handed a bound it panics on,
\* and RandIntMin plus any draw stays within [RandIntMin, RandIntMax].
C20_RangeSizePositive ==
    \A i \in Requests :
        LET r == req[i]
            n == RangeSize(r.recv)
        IN  (r.pc # "idle" /\ RangeConfigured(r.recv)) =>
                /\ IntLess(IntZero, n)
                /\ ~IntnPanics(n)
                /\ r.pc # "panic"
                /\ \A d \in IntnDraws(n) :
                      /\ IntLeq(r.recv.RandIntMin, RandIntValue(r.recv, d))
                      /\ IntLeq(RandIntValue(r.recv, d), r.recv.RandIntMax)

\* C21: once Validate has returned no error, RandIntMax > RandIntMin holds
\* of the instance and of the receiver of every ServeHTTP call, so
\* setRandPlaceholders never takes its else branch; no request is served
\* in any other phase.
C21_FallbackNeverTakenWhenActive ==
    /\ phase = "active" => (lastErr = "" /\ RangeConfigured(e))
    /\ \A i \in Requests :
          req[i].pc # "idle" =>
              /\ phase = "active"
              /\ RangeConfigured(req[i].recv)
              /\ IntLess(req[i].recv.RandIntMin, req[i].recv.RandIntMax)

\* a request of an activated handler went through setRandPlaceholders with
\* the range the block gave
C21_Witness ==
    /\ phase = "active"
    /\ "rand_int" \in config.given
    /\ \E i \in Requests :
          /\ req[i].hasRepl /\ req[i].pc = "loadavg"
          /\ req[i].recv.RandIntMin = I64(10) /\ req[i].recv.RandIntMax = I64(50)
          /\ req[i].repl["extra.rand.int"] = IntVal(I64(50))

\* Provision has run on the instance the block gave (config.inst)
AfterProvision == phase \in {"provisioned", "active", "invalid"}

\* C22: Provision replaces the range only when RandIntMin and RandIntMax
\* are both 0, and the format only when it is empty; any other range, also
\* one with max <= min, any non-empty format and the disable flag are left
\* as parsed, and Provision applied to its own result changes nothing.
C22_ProvisionFrame ==
    AfterProvision =>
        LET was == config.inst
            unsetRange == was.RandIntMin = IntZero /\ was.RandIntMax = IntZero
        IN  /\ unsetRange => (e.RandIntMin = I64(0) /\ e.RandIntMax = I64(100))
            /\ ~unsetRange => (e.RandIntMin = was.RandIntMin /\ e.RandIntMax = was.RandIntMax)
            /\ was.TimeFormatCustom = "" => e.TimeFormatCustom = "2006-01-02 15:04:05"
            /\ was.TimeFormatCustom # "" => e.TimeFormatCustom = was.TimeFormatCustom
            /\ e.DisableLoadavgPlaceholders = was.DisableLoadavgPlaceholders
            /\ Provisioned(e) = e

\* Provision has run on the range 50..10 with a format of the block's own:
\* both are as parsed
C22_Witness ==
    /\ phase = "provisioned"
    /\ config.inst.RandIntMin = I64(50) /\ config.inst.RandIntMax = I64(10)
    /\ config.inst.TimeFormatCustom = "02.01.2006 15:04:05"
    /\ e = config.inst

\* UnmarshalCaddyfile has returned and the parser still holds the block
AfterUnmarshal == phase \in {"parsed", "parse_error"}

\* whether a text is a decimal integer that fits an int
IsIntText(s) == Atoi(s).ok

\* the subdirectives of a line, each with its arguments: rand_int takes
\* the rest of its line, time_format_custom one argument,
\* disable_loadavg_placeholders none
RECURSIVE SplitLine(_)
SplitLine(line) ==
    IF Len(line) = 0 THEN <<>>
    ELSE IF line[1] = "time_format_custom" /\ Len(line) >= 2
         THEN <<SubSeq(line, 1, 2)>> \o SplitLine(SubSeq(line, 3, Len(line)))
    ELSE IF line[1] = "disable_loadavg_placeholders"
         THEN << <<line[1]>> >> \o SplitLine(Tail(line))
    ELSE <<line>>

\* the subdirectives of a block in their order, one per entry
RECURSIVE Occurrences(_)
Occurrences(block) ==
    IF Len(block) = 0 THEN <<>> ELSE SplitLine(Head(block)) \o Occurrences(Tail(block))

\* a subdirective with its arguments that the syntax of the directive allows
GoodLine(line) ==
    \/ line[1] = "rand_int" /\ Len(line) = 3 /\ IsIntText(line[2]) /\ IsIntText(line[3])
    \/ line[1] = "time_format_custom" /\ Len(line) = 2
    \/ line[1] = "disable_loadavg_placeholders" /\ Len(line) = 1

\* the first of the subdirectives b that is not allowed, 0 when all are
FirstBad(b) ==
    IF \A k \in 1..Len(b) : GoodLine(b[k]) THEN 0
    ELSE CHOOSE k \in 1..Len(b) : ~GoodLine(b[k]) /\ \A j \in 1..(k - 1) : GoodLine(b[j])

\* the number of subdirectives of b before the first that is not allowed
Applied(b) == IF FirstBad(b) = 0 THEN Len(b) ELSE FirstBad(b) - 1

\* the last of the first n subdirectives b that names the option, 0 if none
LastOf(b, n, name) ==
    IF \E k \in 1..n : b[k][1] = name
    THEN CHOOSE k \in 1..n : b[k][1] = name /\ \A j \in (k + 1)..n : b[j][1] # name
    ELSE 0

\* C23: parsing succeeds only when every rand_int of the block, also one
\* that follows another subdirective on its line, has exactly two
\* arguments that are integers; a rand_int with another argument count or
\* a non-integer argument ends parsing with the argument error;
\* RandIntMin and RandIntMax are the first and second argument of the last
\* rand_int before the failing subdirective (0 and 0 when there is none),
\* never one of each.
C23_RandIntArguments ==
    AfterUnmarshal =>
        LET b == Occurrences(config.block)
            k == LastOf(b, Applied(b), "rand_int")
        IN  /\ phase = "parsed" =>
                  \A j \in 1..Len(b) :
                      b[j][1] = "rand_int" =>
                          Len(b[j]) = 3 /\ IsIntText(b[j][2]) /\ IsIntText(b[j][3])
            /\ (FirstBad(b) # 0 /\ b[FirstBad(b)][1] = "rand_int") =>
                  (phase = "parse_error" /\ lastErr = ArgErr)
            /\ k = 0 => (e.RandIntMin = IntZero /\ e.RandIntMax = IntZero)
            /\ k # 0 => /\ e.RandIntMin = Atoi(b[k][2]).v
                        /\ e.RandIntMax = Atoi(b[k][3]).v

\* "rand_int -5 5" followed by "rand_int 10 abc": the argument error, and
\* the range still -5..5
C23_Witness ==
    /\ phase = "parse_error"
    /\ config.block = << <<"rand_int", "-5", "5">>, <<"rand_int", "10", "abc">> >>
    /\ lastErr = ArgErr
    /\ e.RandIntMin = I64(-5)
    /\ e.RandIntMax = I64(5)

Subdirectives == {"rand_int", "time_format_custom", "disable_loadavg_placeholders"}

\* the instance that the first n subdirectives b give, each field from the
\* last of them that names its option
FromLines(b, n) ==
    LET kr == LastOf(b, n, "rand_int")
        kf == LastOf(b, n, "time_format_custom")
    IN  [ RandIntMin |-> IF kr = 0 THEN IntZero ELSE Atoi(b[kr][2]).v,
          RandIntMax |-> IF kr = 0 THEN IntZero ELSE Atoi(b[kr][3]).v,
          TimeFormatCustom |-> IF kf = 0 THEN "" ELSE b[kf][2],
          DisableLoadavgPlaceholders |-> LastOf(b, n, "disable_loadavg_placeholders") # 0 ]

\* C24: parsing succeeds exactly when every subdirective of the block is
\* one of rand_int, time_format_custom, disable_loadavg_placeholders with
\* its arguments; another name ends it with "unknown subdirective: <name>",
\* a time_format_custom without argument with the argument error, and the
\* instance then holds what the subdirectives before the failing one gave
\* and nothing of those after it.
C24_OnlyKnownSubdirectives ==
    AfterUnmarshal =>
        LET b == Occurrences(config.block)
            f == FirstBad(b)
        IN  /\ (phase = "parsed") <=> (f = 0)
            /\ phase = "parsed" =>
                  (lastErr = "" /\ \A j \in 1..Len(b) : b[j][1] \in Subdirectives)
            /\ (f # 0 /\ b[f][1] \notin Subdirectives) =>
                  lastErr = "unknown subdirective: " \o b[f][1]
            /\ (f # 0 /\ b[f] = <<"time_format_custom">>) => lastErr = ArgErr
            /\ f # 0 => e = FromLines(b, f - 1)

\* "bogus" followed by "rand_int 10 50": the unknown-subdirective error,
\* and the range not set
C24_Witness ==
    /\ phase = "parse_error"
    /\ config.block = << <<"bogus">>, <<"rand_int", "10", "50">> >>
    /\ lastErr = "unknown subdirective: bogus"
    /\ e = ZeroInstance

\* C25: a block whose subdirectives are well formed parses whatever the
\* order of the bounds of its rand_int subdirectives, and the instance
\* holds the bounds as written; of the parsed instances Validate refuses exactly those whose
\* max is not above min, save the pair 0, 0, which Provision has replaced
\* by 0..100 before Validate sees it.
C25_BoundOrderLeftToValidate ==
    LET was == config.inst
        unsetRange == was.RandIntMin = IntZero /\ was.RandIntMax = IntZero
        b == Occurrences(config.block)
    IN  /\ (AfterUnmarshal /\ FirstBad(b) = 0) =>
              (phase = "parsed" /\ lastErr = "" /\ e = FromLines(b, Len(b)))
        /\ phase \in {"active", "invalid"} =>
              ((phase = "invalid") <=>
                  (IntLeq(was.RandIntMax, was.RandIntMin) /\ ~unsetRange))
        /\ (phase = "active" /\ unsetRange) =>
              (e.RandIntMin = I64(0) /\ e.RandIntMax = I64(100))

\* "rand_int 50 10" was parsed and provisioned as written, and Validate
\* refused it
C25_Witness ==
    /\ phase = "invalid"
    /\ config.inst.RandIntMin = I64(50)
    /\ config.inst.RandIntMax = I64(10)
    /\ e.RandIntMin = I64(50)
    /\ e.RandIntMax = I64(10)
    /\ lastErr = "invalid configuration: RandIntMax (10) must be greater than RandIntMin (50)"

\* the instance after all subdirectives of b but the last
BeforeLast(b) == UnmarshalFrom(ZeroInstance, Tokens(SubSeq(b, 1, Len(b) - 1), 1), 0).e

\* C26: after a block that parses, the range is that of its last rand_int
\* and the format that of its last time_format_custom; the last
\* subdirective leaves the fields of every option it does not name as the
\* ones before it left them; the disable flag is set exactly when some
\* subdirective is disable_loadavg_placeholders, whatever follows it.
C26_LastOccurrenceWins ==
    phase = "parsed" =>
        LET b == Occurrences(config.block)
            n == Len(b)
            kr == LastOf(b, n, "rand_int")
            kf == LastOf(b, n, "time_format_custom")
        IN  /\ kr # 0 => (e.RandIntMin = Atoi(b[kr][2]).v /\ e.RandIntMax = Atoi(b[kr][3]).v)
            /\ kf # 0 => e.TimeFormatCustom = b[kf][2]
            /\ e.DisableLoadavgPlaceholders <=>
                  (\E j \in 1..n : b[j][1] = "disable_loadavg_placeholders")
            /\ n >= 1 =>
                  LET was == BeforeLast(b)
                  IN  /\ b[n][1] # "rand_int" =>
                            (e.RandIntMin = was.RandIntMin /\ e.RandIntMax = was.RandIntMax)
                      /\ b[n][1] # "time_format_custom" =>
                            e.TimeFormatCustom = was.TimeFormatCustom
                      /\ was.DisableLoadavgPlaceholders => e.DisableLoadavgPlaceholders

\* "rand_int 10 50" followed by "rand_int -5 5": the second range, and the
\* format and the flag untouched
C26_Witness ==
    /\ phase = "parsed"
    /\ config.block = << <<"rand_int", "10", "50">>, <<"rand_int", "-5", "5">> >>
    /\ e.RandIntMin = I64(-5)
    /\ e.RandIntMax = I64(5)
    /\ e.TimeFormatCustom = ""
    /\ ~e.DisableLoadavgPlaceholders

\* C27: under each prefix a request has written, every one of the fifteen
\* time placeholders holds the value of the one time value handed to
\* setTimePlaceholders for that prefix, also after the clock has advanced:
\* month, day, hour, minute, second and their padded forms, the zone
\* offset and name, the ISO week and year, and the custom rendering all
\* describe the same instant in the same zone.
C27_OneTimeValuePerPrefix ==
    \A i \in Requests : \A base \in TimePrefixes(req[i]) :
        LET r    == req[i]
            t    == TimeOf(r, base)
            V(f) == r.repl[base \o "." \o f]
        IN  /\ t.unix <= clock
            /\ V("month") = IntVal(I64(Month(t)))
            /\ V("day") = IntVal(I64(Day(t)))
            /\ V("hour") = IntVal(I64(Hour(t)))
            /\ V("minute") = IntVal(I64(Minute(t)))
            /\ V("second") = IntVal(I64(Second(t)))
            /\ V("month_padded") = StrVal(Sprintf02d(Month(t)))
            /\ V("day_padded") = StrVal(Sprintf02d(Day(t)))
            /\ V("hour_padded") = StrVal(Sprintf02d(Hour(t)))
            /\ V("minute_padded") = StrVal(Sprintf02d(Minute(t)))
            /\ V("second_padded") = StrVal(Sprintf02d(Second(t)))
            /\ V("timezone_offset") = StrVal(Format(t, "-0700"))
            /\ V("timezone_name") = StrVal(Format(t, "MST"))
            /\ V("iso_week") = IntVal(I64(ISOWeek(t)))
            /\ V("iso_year") = IntVal(I64(ISOYear(t)))
            /\ V("custom") = StrVal(Format(t, r.recv.TimeFormatCustom))
            /\ t.unix = 1735689599 =>
                  (V("minute") = IntVal(I64(59)) /\ V("second") = IntVal(I64(59)))

\* the local time set was written at 23:59:59 UTC of 31 December 2024 and
\* the clock has gone on to the new year since: every local field is still
\* of the old instant
C27_Witness ==
    \E i \in Requests :
        LET r == req[i]
        IN  /\ PastTimeLocal(r)
            /\ zone.name = "UTC"
            /\ r.recv.TimeFormatCustom = "2006-01-02 15:04:05"
            /\ r.tLocal.unix = 1735689599
            /\ clock = 1735689600
            /\ r.repl["extra.time.now.hour"] = IntVal(I64(23))
            /\ r.repl["extra.time.now.minute_padded"] = StrVal("59")
            /\ r.repl["extra.time.now.second"] = IntVal(I64(59))
            /\ r.repl["extra.time.now.iso_year"] = IntVal(I64(2025))
            /\ r.repl["extra.time.now.custom"] = StrVal("2024-12-31 23:59:59")

\* a key of this module's own name space
HasExtraPrefix(k) == Len(k) >= 6 /\ SubSeq(k, 1, 6) = "extra."

\* the bounds rand.int is drawn within for a receiver
LowOf(inst) == IF RangeConfigured(inst) THEN inst.RandIntMin ELSE I64(0)

HighOf(inst) == IF RangeConfigured(inst) THEN inst.RandIntMax ELSE I64(100)

\* C28: every key a request writes starts with "extra."; the replacer
\* holds what it held at the call plus the keys written, and every entry
\* under a key not written, so every entry under a key that does not start
\* with "extra.", is as it was at the call; once extra.rand.int is written
\* the entry a former handler left under it has given way to a value drawn
\* for this request, and a request that returns from the next handler has
\* written it. Without a replacer nothing is written.
C28_OnlyExtraKeysSet ==
    \A i \in Requests :
        LET r == req[i]
        IN  /\ \A n \in 1..Len(r.writes) : HasExtraPrefix(r.writes[n])
            /\ DOMAIN r.repl = DOMAIN r.before \cup KeysWritten(r)
            /\ \A k \in DOMAIN r.before :
                  (~Wrote(r, k) \/ ~HasExtraPrefix(k)) => r.repl[k] = r.before[k]
            /\ Wrote(r, "extra.rand.int") =>
                  /\ r.repl["extra.rand.int"].kind = "int"
                  /\ IntLeq(LowOf(r.recv), r.repl["extra.rand.int"].int)
                  /\ IntLeq(r.repl["extra.rand.int"].int, HighOf(r.recv))
            /\ (r.pc = "done" /\ r.hasRepl) => Wrote(r, "extra.rand.int")
            /\ ~r.hasRepl => (r.writes = <<>> /\ r.repl = EmptyStore)

\* a request with the range 10..50 has returned: the entry -1 a former
\* handler left under extra.rand.int is replaced, the method and the query
\* entry are as they were
C28_Witness ==
    \E i \in Requests :
        LET r == req[i]
        IN  /\ r.pc = "done"
            /\ r.hasRepl
            /\ r.recv.RandIntMin = I64(10)
            /\ r.before["extra.rand.int"] = IntVal(I64(-1))
            /\ r.repl["extra.rand.int"] # IntVal(I64(-1))
            /\ r.repl["http.request.method"] = StrVal("GET")
            /\ r.repl["http.request.uri.query.format"] = StrVal("15:04")
            /\ Wrote(r, "extra.time.now.utc.custom")

====
